---------------------------- MODULE Spec2Model ----------------------------
(***************************************************************************)
(* Verification model of the bird-sound clip pipeline (scripts/*.py).      *)
(*                                                                         *)
(* The specifications share the variables below:                           *)
(*   SpecTrim     - the duration enforcers audio_ingest.trim_audio and the *)
(*                  pad/trim step of nz_ingest.process_audio_file, applied *)
(*                  to (audio, sample_rate) inputs;                        *)
(*   SpecExtract  - the multi-segment selector extract_clips of            *)
(*                  cornell_ingest and nz_ingest;                          *)
(*   SpecResample - the linear-interpolation resampling step;              *)
(*   SpecCatalog  - the writers of data/clips.json (review_clips,          *)
(*                  merge_candidates, clip_editor, clip_selector,          *)
(*                  augment_species) and the clip files on disk;           *)
(*   SpecLoudness - normalize_loudness and the normalization lines of      *)
(*                  extract_clip, on buffers of IEEE samples;              *)
(*   SpecPipeline - the order of the stages in the five ingest paths;      *)
(*   SpecBatch    - the batch loops and the exit status of the mains;      *)
(*   SpecNormalize - normalize_clips on records with free-text types;      *)
(*   SpecCornell  - cornell_ingest.process_cornell_file;                   *)
(*   SpecClipIds  - the clip ids of clip_editor and clip_selector over     *)
(*                  catalogs with arbitrary id suffixes;                   *)
(*   SpecWrite    - open(path, 'w') / json.dump of a catalog writer, step  *)
(*                  by step, with a reader and a crash;                    *)
(*   SpecSelect   - the window choice of trim_audio and extract_clips;     *)
(*   SpecServer   - the request handling of a running curation server;     *)
(*   SpecMigrate  - migrate_species_codes with the other catalog writers;  *)
(*   SpecSteps    - extract_clip write by write, with failures;            *)
(*   SpecSpectrogram - spectrogram_gen.process_clips.                      *)
(*                                                                         *)
(* Units.  Durations are in tenths of a second, so MIN_DURATION = 0.5 s is *)
(* 5 and int(0.5 * sr) is (5 * sr) \div 10.  Samples are fixed-point       *)
(* integers.  The RMS energy sqrt(mean(w ** 2)) of a window is kept as the *)
(* pair (sum of squares, number of samples); sqrt is monotone, so the      *)
(* comparisons of the code are comparisons of the quotients.               *)
(* Strings that the code takes apart (clip ids, file names, source ids)    *)
(* are sequences of tokens: one token per digit, "_" and "-", and one per  *)
(* word such as "clip" or "doc".                                           *)
(***************************************************************************)
EXTENDS Integers, Sequences, FiniteSets, TLC

VARIABLES
    audio,        \* the decoded mono buffer handed to a pipeline step
    sample_rate,  \* its sample rate
    result,       \* what the last pipeline step returned
    clips_json,   \* content of data/clips.json: a sequence of clip dicts
    clips_backup, \* content of data/clips.json.backup
    files,        \* files present under data/ (clips, spectrograms, backups)
    last,         \* the last catalog operation: inputs, outcome, state before
    nops          \* number of catalog operations run so far

vars == <<audio, sample_rate, result, clips_json, clips_backup, files, last, nops>>

audioVars == <<audio, sample_rate, result>>
catalogVars == <<clips_json, clips_backup, files, last, nops>>

----------------------------------------------------------------------------
(* Program constants                                                       *)

MIN_DURATION == 5
MAX_DURATION == 30
OUTPUT_SAMPLE_RATE == 44100
CORNELL_TARGET_DURATION == 20
NZ_TARGET_DURATION == 25
MAX_CLIPS_PER_FILE == 3
AUGMENT_MAX_CLIPS == 10

----------------------------------------------------------------------------
(* Bounds of the model                                                     *)

\* longest buffer given to trim_audio, in tenths of a second
MaxTrimDuration == 34
\* longest buffer given to extract_clips, in samples
MaxExtractLen == 64
\* the quiet second burst of a test buffer sits on multiples of this
QuietGrid == 16
\* longest buffer given to the resampler
MaxResampleLen == 5
\* most records in clips.json
MaxCatalog == 3
\* most catalog operations in one run
MaxOps == 2

\* Sample rates of the trim and extract specifications.  trim_audio and extract_clips
\* are only ever called after resampling, at 44100 Hz; the model scales the
\* rate down and keeps it >= 10 so that sample_rate // 10 >= 1 as at 44100.
\* Like 44100, the scaled rates are multiples of 10, so int(0.5 * sr),
\* int(2.5 * sr) and sr // 10 are exact, as they are in the program.
SampleRates == {10, 20}

\* Source rates of the resample specification.  For these rates and every
\* length up to 200 the double-precision value len / sr * 44100 truncates
\* to the exact floor(len * 44100 / sr), which is what the model computes.
SourceRates == {8000, 44100, 48000, 96000}

----------------------------------------------------------------------------
(* Python helpers                                                          *)

Min(a, b) == IF a < b THEN a ELSE b
Max(a, b) == IF a > b THEN a ELSE b
Abs(x) == IF x < 0 THEN -x ELSE x

\* int(x) of the quotient n / d (d > 0): truncation toward zero
TruncDiv(n, d) == IF n >= 0 THEN n \div d ELSE -((-n) \div d)

\* int(t * sr) for a time t given in tenths of a second
SecondsToSamples(t, sr) == TruncDiv(t * sr, 10)

\* a[lo:hi] for 0 <= lo
Slice(a, lo, hi) == SubSeq(a, lo + 1, Min(hi, Len(a)))

\* np.pad(a, (0, n), constant_values=0)
PadRight(a, n) == a \o [i \in 1..n |-> 0]

\* a scan that runs one step further
RangeLenOver(stop, step) == (stop + 2 * step - 1) \div step

\* len(range(0, stop, step)) for step >= 1
RangeLen(stop, step) == IF stop <= 0 THEN 0 ELSE (stop + step - 1) \div step

RECURSIVE SumSq(_, _, _)
SumSq(a, i, j) == IF i > j THEN 0 ELSE a[i] * a[i] + SumSq(a, i + 1, j)

\* np.sqrt(np.mean(window ** 2)), as (sum of squares, count)
Energy(window) == [sumsq |-> SumSq(window, 1, Len(window)), n |-> Len(window)]

\* e1 > e2 on energies; the mean of an empty window is nan and compares False
EnergyGreater(e1, e2) ==
    /\ e1.n > 0
    /\ e2.n > 0
    /\ e1.sumsq * e2.n > e2.sumsq * e1.n

ZeroEnergy == [sumsq |-> 0, n |-> 1]

----------------------------------------------------------------------------
(* audio_ingest.trim_audio                                                 *)

TrimPaddingFull(n, min_samples) == min_samples

\* padding = min_samples - len(audio)
TrimPadding(n, min_samples) == min_samples - n

\* the loop "for start in range(0, len(audio) - window_size, step)" from its
\* k-th iteration on, carrying best_start and best_energy
RECURSIVE TrimScan(_, _, _, _, _, _, _)
TrimScan(a, window_size, step, k, n, best_start, best_energy) ==
    IF k >= n THEN best_start
    ELSE LET start == k * step
             energy == Energy(Slice(a, start, start + window_size))
         IN  IF EnergyGreater(energy, best_energy)
             THEN TrimScan(a, window_size, step, k + 1, n, start, energy)
             ELSE TrimScan(a, window_size, step, k + 1, n, best_start, best_energy)

\* best_start at the end of the scan (buffers longer than max_samples)
trim_best_start(a, sr) ==
    LET max_samples == SecondsToSamples(MAX_DURATION, sr)
        window_size == max_samples
        step == sr \div 10
    IN  TrimScan(a, window_size, step, 0,
                 RangeLen(Len(a) - window_size, step), 0, ZeroEnergy)

trim_audio(a, sr) ==
    LET min_samples == SecondsToSamples(MIN_DURATION, sr)
        max_samples == SecondsToSamples(MAX_DURATION, sr)
    IN  IF Len(a) < min_samples
        THEN PadRight(a, TrimPadding(Len(a), min_samples))
        ELSE IF Len(a) > max_samples
        THEN LET best_start == trim_best_start(a, sr)
             IN  Slice(a, best_start, best_start + max_samples)
        ELSE a

----------------------------------------------------------------------------
(* nz_ingest.process_audio_file: the pad / trim step applied to each clip  *)

nz_pad_trim(clip_audio, sr) ==
    LET min_samples == SecondsToSamples(MIN_DURATION, sr)
        max_samples == SecondsToSamples(MAX_DURATION, sr)
        padded == IF Len(clip_audio) < min_samples
                  THEN PadRight(clip_audio, min_samples - Len(clip_audio))
                  ELSE clip_audio
    IN  IF Len(padded) > max_samples
        THEN Slice(padded, 0, max_samples)
        ELSE padded

----------------------------------------------------------------------------
(* cornell_ingest.extract_clips and nz_ingest.extract_clips (same body,    *)
(* different default target_duration)                                      *)

\* segments: one {'start', 'energy'} per window position of the scan
ExtractSegments(a, window_size, step_size) ==
    [k \in 1..RangeLen(Len(a) - window_size, step_size) |->
        [start  |-> (k - 1) * step_size,
         energy |-> Energy(Slice(a, (k - 1) * step_size,
                                 (k - 1) * step_size + window_size))]]

\* segments.sort(key=energy, reverse=True): a stable sort, so among equal
\* energies the earlier window stays first.  rest is the set of indices
\* not yet placed.
RECURSIVE SortByEnergy(_, _)
SortByEnergy(segments, rest) ==
    IF rest = {} THEN <<>>
    ELSE LET best == CHOOSE i \in rest :
                        \A j \in rest \ {i} :
                            \/ EnergyGreater(segments[i].energy, segments[j].energy)
                            \/ /\ ~EnergyGreater(segments[j].energy, segments[i].energy)
                               /\ i < j
         IN  <<segments[best]>> \o SortByEnergy(segments, rest \ {best})

OverlapsHalf(seg_start, sel_start, window_size) ==
    Abs(seg_start - sel_start) < window_size \div 2

\* abs(seg['start'] - sel['start']) < window_size
Overlaps(seg_start, sel_start, window_size) ==
    Abs(seg_start - sel_start) < window_size

\* the greedy loop "for seg in segments" from its i-th element on
RECURSIVE SelectSegments(_, _, _, _, _)
SelectSegments(sorted, i, selected, window_size, max_clips) ==
    IF i > Len(sorted) THEN selected
    ELSE LET seg == sorted[i]
             overlaps == \E s \in 1..Len(selected) :
                            Overlaps(seg.start, selected[s].start, window_size)
         IN  IF overlaps
             THEN SelectSegments(sorted, i + 1, selected, window_size, max_clips)
             ELSE IF Len(selected) + 1 >= max_clips
                  THEN Append(selected, seg)
                  ELSE SelectSegments(sorted, i + 1, Append(selected, seg),
                                      window_size, max_clips)

\* the start offsets of the windows extract_clips cuts out, in the order
\* of the returned clips; <<0>> for the whole-buffer and fallback returns
extract_starts(a, sr, target_duration) ==
    LET target_samples == SecondsToSamples(target_duration, sr)
        step_size == sr \div 2
        segments == ExtractSegments(a, target_samples, step_size)
        sorted == SortByEnergy(segments, DOMAIN segments)
        max_clips == Min(MAX_CLIPS_PER_FILE, Len(segments))
        selected == SelectSegments(sorted, 1, <<>>, target_samples, max_clips)
        kept == SelectSeq(selected,
                    LAMBDA seg : Len(Slice(a, seg.start, seg.start + target_samples))
                                    >= SecondsToSamples(MIN_DURATION, sr))
    IN  IF Len(a) <= target_samples THEN <<0>>
        ELSE IF Len(segments) = 0 THEN <<0>>
        ELSE IF Len(kept) = 0 THEN <<0>>
        ELSE [i \in 1..Len(kept) |-> kept[i].start]

extract_clips(a, sr, target_duration) ==
    LET target_samples == SecondsToSamples(target_duration, sr)
        starts == extract_starts(a, sr, target_duration)
    IN  IF Len(a) <= target_samples THEN <<a>>
        ELSE [i \in 1..Len(starts) |->
                 Slice(a, starts[i], starts[i] + target_samples)]

----------------------------------------------------------------------------
(* Specifications of the duration enforcers and of the segment selector    *)

\* a silent buffer of n samples with a loud sample (amplitude 2) at offset
\* loud and a quiet one (amplitude 1) at offset quiet; -1 for no burst
Buffer(n, loud, quiet) ==
    [i \in 1..n |-> IF i - 1 = loud THEN 2 ELSE IF i - 1 = quiet THEN 1 ELSE 0]

\* buffers of up to MaxTrimDuration tenths of a second; the loud sample
\* takes every offset
TrimBuffers(sr) ==
    LET max_len == SecondsToSamples(MaxTrimDuration, sr)
    IN  { Buffer(n, loud, quiet) :
            n \in 0..max_len,
            loud \in -1..(max_len - 1),
            quiet \in {-1} \cup {q \in 0..(max_len - 1) : q % QuietGrid = 0} }

\* buffers of up to MaxExtractLen samples; extract_clips looks at windows
\* that start on multiples of sr // 2, so one loud offset per scan step
\* gives every pattern of window energies
ExtractBuffers(sr) ==
    { Buffer(n, loud, quiet) :
        n \in 0..MaxExtractLen,
        loud \in {-1} \cup {q \in 0..(MaxExtractLen - 1) : q % (sr \div 2) = 0},
        quiet \in {-1} \cup {q \in 0..(MaxExtractLen - 1) : q % QuietGrid = 0} }

NoCatalog ==
    /\ clips_json = <<>>
    /\ clips_backup = <<>>
    /\ files = {}
    /\ last = [op |-> "none"]
    /\ nops = 0

InitTrim ==
    /\ sample_rate \in SampleRates
    /\ audio \in TrimBuffers(sample_rate)
    /\ result = [op |-> "none"]
    /\ NoCatalog

InitExtract ==
    /\ sample_rate \in SampleRates
    /\ audio \in ExtractBuffers(sample_rate)
    /\ result = [op |-> "none"]
    /\ NoCatalog

\* audio = trim_audio(audio, sample_rate)
Trim ==
    /\ result.op = "none"
    /\ result' = [op |-> "trim_audio",
                  audio |-> trim_audio(audio, sample_rate),
                  best_start |->
                      IF Len(audio) > SecondsToSamples(MAX_DURATION, sample_rate)
                      THEN trim_best_start(audio, sample_rate) ELSE 0]
    /\ UNCHANGED <<audio, sample_rate>>
    /\ UNCHANGED catalogVars

\* the pad / trim of one clip in nz_ingest.process_audio_file
NzPadTrim ==
    /\ result.op = "none"
    /\ result' = [op |-> "nz_pad_trim",
                  audio |-> nz_pad_trim(audio, sample_rate)]
    /\ UNCHANGED <<audio, sample_rate>>
    /\ UNCHANGED catalogVars

\* clips = extract_clips(audio, sample_rate, target_duration=2.0)
CornellExtract ==
    /\ result.op = "none"
    /\ result' = [op |-> "extract_clips",
                  window |-> SecondsToSamples(CORNELL_TARGET_DURATION, sample_rate),
                  starts |-> extract_starts(audio, sample_rate, CORNELL_TARGET_DURATION),
                  clips |-> extract_clips(audio, sample_rate, CORNELL_TARGET_DURATION)]
    /\ UNCHANGED <<audio, sample_rate>>
    /\ UNCHANGED catalogVars

\* clips = extract_clips(audio, sample_rate) with the default 2.5 s
NzExtract ==
    /\ result.op = "none"
    /\ result' = [op |-> "extract_clips",
                  window |-> SecondsToSamples(NZ_TARGET_DURATION, sample_rate),
                  starts |-> extract_starts(audio, sample_rate, NZ_TARGET_DURATION),
                  clips |-> extract_clips(audio, sample_rate, NZ_TARGET_DURATION)]
    /\ UNCHANGED <<audio, sample_rate>>
    /\ UNCHANGED catalogVars

NextTrim == Trim \/ NzPadTrim

SpecTrim == InitTrim /\ [][NextTrim]_vars

NextExtract == CornellExtract \/ NzExtract

SpecExtract == InitExtract /\ [][NextExtract]_vars

----------------------------------------------------------------------------
(* Claims about the segment selectors and duration enforcers               *)

\* C1: trim_audio and the nz pad/trim step return exactly
\* max(int(0.5*sr), min(L, int(3.0*sr))) samples for an input of L samples:
\* a short input is the input followed by zeros, a long one is a contiguous
\* window of the input, anything else is returned as it is; so the output
\* lasts between 0.5 s and 3.0 s.
C1_DurationEnforced ==
    result.op \in {"trim_audio", "nz_pad_trim"} =>
        LET n == Len(audio)
            lo == sample_rate \div 2
            hi == 3 * sample_rate
            out == result.audio
        IN  /\ Len(out) = Max(lo, Min(n, hi))
            /\ 10 * Len(out) >= 5 * sample_rate
            /\ 10 * Len(out) <= 30 * sample_rate
            /\ n < lo => out = audio \o [i \in 1..(lo - n) |-> 0]
            /\ (n >= lo /\ n <= hi) => out = audio
            /\ n > hi => \E s \in 0..(n - hi) : out = SubSeq(audio, s + 1, s + hi)

\* a buffer shorter than 0.5 s has been padded by trim_audio
C1_Witness ==
    /\ result.op = "trim_audio"
    /\ Len(audio) > 0
    /\ Len(audio) < sample_rate \div 2
    /\ Len(result.audio) = sample_rate \div 2

\* C8: for a buffer longer than the 3.0 s window W, trim_audio returns the
\* window of maximum RMS among all positions 0, step, 2*step, ... with
\* start + W <= len(buffer), the earliest winning ties; and when the buffer
\* is silent except for one burst, the returned window contains the burst.
C8_LoudestWindow ==
    (result.op = "trim_audio" /\ Len(audio) > 3 * sample_rate) =>
        LET W == 3 * sample_rate
            step == sample_rate \div 10
            fits == {s \in 0..(Len(audio) - W) : s % step = 0}
            sumsq(s) == SumSq(audio, s + 1, s + W)
            best == result.best_start
            bursts == {i \in 1..Len(audio) : audio[i] # 0}
        IN  /\ best \in fits
            /\ \A s \in fits : sumsq(best) >= sumsq(s)
            /\ \A s \in fits : sumsq(s) = sumsq(best) => best <= s
            /\ result.audio = SubSeq(audio, best + 1, best + W)
            /\ Cardinality(bursts) = 1 =>
                   \A i \in bursts : i >= best + 1 /\ i <= best + W

----------------------------------------------------------------------------
(* The resampling step (audio_ingest.process_audio_file; the same lines    *)
(* are in cornell_ingest, nz_ingest, clip_editor and clip_selector)        *)

\* Python round(n / d) for n >= 0, d > 0: nearest integer, halves to even
RoundDiv(n, d) ==
    LET q == n \div d
        r == n % d
    IN  IF 2 * r > d THEN q + 1
        ELSE IF 2 * r < d THEN q
        ELSE IF q % 2 = 0 THEN q ELSE q + 1

resample_length_round(n, sr) == RoundDiv(n * OUTPUT_SAMPLE_RATE, sr)

\* duration = len(audio) / sample_rate
\* new_length = int(duration * OUTPUT_SAMPLE_RATE)
resample_length(n, sr) == TruncDiv(n * OUTPUT_SAMPLE_RATE, sr)

\* np.interp(x, np.arange(len(a)), a) at x = num / den with 0 <= x <= len-1;
\* the result is kept in the fixed point of the samples, rounded down
Interp(a, num, den) ==
    LET i == num \div den
        r == num % den
    IN  IF r = 0 THEN a[i + 1]
        ELSE (a[i + 1] * (den - r) + a[i + 2] * r) \div den

\* indices = np.linspace(0, len(audio) - 1, new_length)
\* audio = np.interp(indices, np.arange(len(audio)), audio)
\* for a non-empty buffer a (np.interp rejects an empty one, which the
\* model leaves out)
resample(a, sr) ==
    IF sr = OUTPUT_SAMPLE_RATE
    THEN [audio |-> a, sample_rate |-> sr]
    ELSE LET new_length == resample_length(Len(a), sr)
         IN  [audio |-> [k \in 1..new_length |->
                            IF new_length = 1 THEN a[1]
                            ELSE Interp(a, (k - 1) * (Len(a) - 1), new_length - 1)],
              sample_rate |-> OUTPUT_SAMPLE_RATE]

ResampleBuffers ==
    UNION { [1..n -> {-4, 0, 4}] : n \in 1..MaxResampleLen }

InitResample ==
    /\ audio \in ResampleBuffers
    /\ sample_rate \in SourceRates
    /\ result = [op |-> "none"]
    /\ NoCatalog

\* "Resample if needed"
Resample ==
    /\ result.op = "none"
    /\ result' = [op |-> "resample"] @@ resample(audio, sample_rate)
    /\ UNCHANGED <<audio, sample_rate>>
    /\ UNCHANGED catalogVars

NextResample == Resample

SpecResample == InitResample /\ [][NextResample]_vars

----------------------------------------------------------------------------
(* Strings as token sequences                                              *)

Digit == {"0", "1", "2", "3", "4", "5", "6", "7", "8", "9"}

DigitValue(c) ==
    CASE c = "0" -> 0 [] c = "1" -> 1 [] c = "2" -> 2 [] c = "3" -> 3
      [] c = "4" -> 4 [] c = "5" -> 5 [] c = "6" -> 6 [] c = "7" -> 7
      [] c = "8" -> 8 [] c = "9" -> 9

DigitToken(d) ==
    CASE d = 0 -> "0" [] d = 1 -> "1" [] d = 2 -> "2" [] d = 3 -> "3"
      [] d = 4 -> "4" [] d = 5 -> "5" [] d = 6 -> "6" [] d = 7 -> "7"
      [] d = 8 -> "8" [] d = 9 -> "9"

\* s.startswith(prefix)
StartsWith(s, prefix) ==
    /\ Len(s) >= Len(prefix)
    /\ SubSeq(s, 1, Len(prefix)) = prefix

\* s[n:]
DropFirst(s, n) == SubSeq(s, n + 1, Len(s))

\* s.upper() of a species code
Upper(s) ==
    [i \in 1..Len(s) |-> IF s[i] = "yrwa" THEN "YRWA"
                         ELSE IF s[i] = "cewa" THEN "CEWA" ELSE s[i]]

\* len(s) in characters, for the codes the model uses
CharLen(s) ==
    IF s = <<>> THEN 0
    ELSE IF s[1] \in {"CEWA", "YRWA", "cewa", "yrwa"} THEN 4 + (Len(s) - 1)
    ELSE IF s[1] = "NZ" THEN 2 + (Len(s) - 1)
    ELSE Len(s)

\* s.split('_')[0]
BeforeUnderscore(s) ==
    IF \E i \in 1..Len(s) : s[i] = "_"
    THEN SubSeq(s, 1, (CHOOSE i \in 1..Len(s) :
                          s[i] = "_" /\ \A j \in 1..(i - 1) : s[j] # "_") - 1)
    ELSE s

\* s.replace(old, new) for a one-token old
RECURSIVE Replace(_, _, _)
Replace(s, old, new) ==
    IF s = <<>> THEN <<>>
    ELSE (IF s[1] = old THEN new ELSE <<s[1]>>) \o Replace(Tail(s), old, new)

RECURSIVE DigitsValue(_, _)
DigitsValue(s, acc) ==
    IF s = <<>> THEN acc
    ELSE IF s[1] = "_" THEN DigitsValue(Tail(s), acc)
    ELSE DigitsValue(Tail(s), 10 * acc + DigitValue(s[1]))

\* int(s): an optional sign, then digits with single underscores between
\* them; anything else raises ValueError (ok = FALSE)
ParseInt(s) ==
    LET signed == s # <<>> /\ s[1] \in {"-", "+"}
        body == IF signed THEN Tail(s) ELSE s
        wellformed ==
            /\ body # <<>>
            /\ body[1] \in Digit
            /\ body[Len(body)] \in Digit
            /\ \A i \in 1..Len(body) : body[i] \in Digit \cup {"_"}
            /\ \A i \in 1..(Len(body) - 1) : ~(body[i] = "_" /\ body[i + 1] = "_")
    IN  IF ~wellformed THEN [ok |-> FALSE, value |-> 0]
        ELSE [ok |-> TRUE,
              value |-> IF signed /\ s[1] = "-"
                        THEN -DigitsValue(body, 0) ELSE DigitsValue(body, 0)]

RECURSIVE NatToStr(_)
NatToStr(n) ==
    IF n < 10 THEN <<DigitToken(n)>>
    ELSE Append(NatToStr(n \div 10), DigitToken(n % 10))

\* f"{n}"
IntToStr(n) == IF n < 0 THEN <<"-">> \o NatToStr(-n) ELSE NatToStr(n)

\* f"{n:03d}": zero-padded to a width of 3, the sign included
IntToStr03(n) ==
    LET digits == NatToStr(Abs(n))
        width == IF n < 0 THEN 2 ELSE 3
        zeros == [i \in 1..(width - Len(digits)) |-> "0"]
    IN  (IF n < 0 THEN <<"-">> ELSE <<>>) \o zeros \o digits

----------------------------------------------------------------------------
(* Clip records and files                                                  *)

\* clip.get(key, default)
Get(clip, key, default) == IF key \in DOMAIN clip THEN clip[key] ELSE default

\* clip[key] = value
Put(clip, key, value) ==
    [k \in DOMAIN clip \cup {key} |-> IF k = key THEN value ELSE clip[k]]

\* the file data/<dir>/<name>
Path(dir, name) == [dir |-> dir, name |-> name]

NoPath == [dir |-> "None", name |-> <<>>]

WavOf(clip_id) == Path("clips", clip_id \o <<".wav">>)
PngOf(clip_id) == Path("spectrograms", clip_id \o <<".png">>)

\* len(nums), the numbering by count
CountOf(nums) == Cardinality(nums)

\* max(nums, default=0) for a set of integers
MaxOf(nums) == IF nums = {} THEN 0 ELSE CHOOSE m \in nums : \A k \in nums : k <= m

----------------------------------------------------------------------------
(* review_clips.save_changes                                               *)

\* clips_by_id = {clip['clip_id']: clip for clip in clips}: of several
\* records with one clip_id the dict keeps the last
IsLastWithId(clips, i) ==
    \A j \in (i + 1)..Len(clips) : clips[j].clip_id # clips[i].clip_id

\* the four "if key in updates and updates[key] != clip.get(key)" blocks;
\* a missing quality_score reads None (0 here), a missing type reads None
UpdateClip(clip, updates) ==
    LET c1 == IF /\ "canonical" \in DOMAIN updates
                 /\ updates.canonical # Get(clip, "canonical", FALSE)
              THEN Put(clip, "canonical", updates.canonical) ELSE clip
        c2 == IF /\ "rejected" \in DOMAIN updates
                 /\ updates.rejected # Get(c1, "rejected", FALSE)
              THEN Put(c1, "rejected", updates.rejected) ELSE c1
        c3 == IF /\ "quality_score" \in DOMAIN updates
                 /\ updates.quality_score # Get(c2, "quality_score", 0)
              THEN Put(c2, "quality_score", updates.quality_score) ELSE c2
    IN  IF /\ "vocalization_type" \in DOMAIN updates
           /\ updates.vocalization_type # Get(c3, "vocalization_type", "None")
        THEN Put(c3, "vocalization_type", updates.vocalization_type) ELSE c3

\* an update for an unknown clip_id creates a record
ApplyModificationsAdding(clips, modified) ==
    LET base == [i \in 1..Len(clips) |->
                    IF clips[i].clip_id \in DOMAIN modified /\ IsLastWithId(clips, i)
                    THEN UpdateClip(clips[i], modified[clips[i].clip_id])
                    ELSE clips[i]]
        unknown == {id \in DOMAIN modified :
                       \A i \in 1..Len(clips) : clips[i].clip_id # id}
    IN  IF unknown = {} THEN base
        ELSE LET id == CHOOSE u \in unknown : TRUE
             IN  Append(base, modified[id] @@ [clip_id |-> id,
                                               species_code |-> <<"NONE">>])

\* step 4: apply modifications
ApplyModifications(clips, modified) ==
    [i \in 1..Len(clips) |->
        IF clips[i].clip_id \in DOMAIN modified /\ IsLastWithId(clips, i)
        THEN UpdateClip(clips[i], modified[clips[i].clip_id])
        ELSE clips[i]]

\* stats['files_deleted']: the files of the clips this change set rejects
FilesMarkedForDeletion(clips, modified) ==
    LET marked == {i \in 1..Len(clips) :
                      /\ clips[i].clip_id \in DOMAIN modified
                      /\ IsLastWithId(clips, i)
                      /\ "rejected" \in DOMAIN modified[clips[i].clip_id]
                      /\ modified[clips[i].clip_id].rejected
                      /\ ~Get(clips[i], "rejected", FALSE)}
    IN  UNION {{Get(clips[i], "file_path", NoPath),
                Get(clips[i], "spectrogram_path", NoPath)} : i \in marked}
            \ {NoPath}

CanonicalConflictById(clips) ==
    \E i, j \in 1..Len(clips) :
        /\ i < j
        /\ Get(clips[i], "canonical", FALSE) /\ ~Get(clips[i], "rejected", FALSE)
        /\ Get(clips[j], "canonical", FALSE) /\ ~Get(clips[j], "rejected", FALSE)
        /\ clips[i].clip_id = clips[j].clip_id

\* step 5: the validation raises ValueError on the second non-rejected
\* canonical record of a species
CanonicalConflict(clips) ==
    \E i, j \in 1..Len(clips) :
        /\ i < j
        /\ Get(clips[i], "canonical", FALSE) /\ ~Get(clips[i], "rejected", FALSE)
        /\ Get(clips[j], "canonical", FALSE) /\ ~Get(clips[j], "rejected", FALSE)
        /\ clips[i].species_code = clips[j].species_code

\* step 7: clips = [c for c in clips if not c.get('rejected', False)]
WithoutRejected(clips) ==
    SelectSeq(clips, LAMBDA c : ~Get(c, "rejected", FALSE))

\* steps 5 and 6 in the opposite order: the files go before the validation
save_changes_delete_first(clips, disk, modified) ==
    LET updated == ApplyModifications(clips, modified)
        doomed == FilesMarkedForDeletion(clips, modified)
    IN  IF CanonicalConflict(updated)
        THEN [ok |-> FALSE, clips |-> clips, files |-> disk \ doomed]
        ELSE [ok |-> TRUE, clips |-> WithoutRejected(updated),
              files |-> disk \ doomed]

\* steps 2 to 8 of save_changes: what is in clips.json and on disk when it
\* returns (ok) or raises (not ok)
save_changes(clips, disk, modified) ==
    LET updated == ApplyModifications(clips, modified)
        doomed == FilesMarkedForDeletion(clips, modified)
    IN  IF CanonicalConflict(updated)
        THEN [ok |-> FALSE, clips |-> clips, files |-> disk]
        ELSE [ok |-> TRUE, clips |-> WithoutRejected(updated),
              files |-> disk \ doomed]

----------------------------------------------------------------------------
(* merge_candidates.merge_candidates                                       *)

\* clip_entry for one candidate of manifest.json; candidate.file_path is
\* the file name, Path(candidate['file_path']).name
NewClipEntry(candidate) ==
    LET filename == candidate.file_path
        species_code == BeforeUnderscore(filename)
    IN  [clip_id |-> Replace(Get(candidate, "source_id", <<>>), "XC",
                             species_code \o <<"_">>),
         species_code |-> species_code,
         common_name |-> candidate.species_name,
         file_path |-> Path("clips", filename),
         vocalization_type |-> Get(candidate, "vocalization_type", "song"),
         duration_ms |-> candidate.duration_ms,
         loudness_lufs |-> candidate.loudness_lufs,
         quality_score |-> 5,
         source |-> "xenocanto",
         source_id |-> Get(candidate, "source_id", <<>>),
         recordist |-> Get(candidate, "recordist", ""),
         canonical |-> FALSE,
         rejected |-> FALSE]

MergedClipsPrepend(existing_clips, new_clips) == new_clips \o existing_clips

\* merged_clips = existing_clips + new_clips
MergedClips(existing_clips, new_clips) == existing_clips \o new_clips

MergeWrittenNew(merged_clips, new_clips) == new_clips

\* json.dump(merged_clips, f, indent=2)
MergeWritten(merged_clips, new_clips) == merged_clips

\* what is in clips.json when merge_candidates returns (ok) or exits with
\* status 1 (not ok)
merge_candidates(existing_clips, candidates) ==
    LET original_count == Len(existing_clips)
        new_clips == [i \in 1..Len(candidates) |-> NewClipEntry(candidates[i])]
        merged_clips == MergedClips(existing_clips, new_clips)
    IN  IF Len(merged_clips) < original_count
        THEN [ok |-> FALSE, clips |-> existing_clips]
        ELSE [ok |-> TRUE, clips |-> MergeWritten(merged_clips, new_clips)]

----------------------------------------------------------------------------
(* clip_editor.extract_clip and clip_selector.extract_clip                 *)
(*                                                                         *)
(* A request r carries the parameters of the call and what the call reads  *)
(* from its environment: species_code, xc_id and replace_clip_id (<<>> for *)
(* None or ''), start_time and duration in tenths of a second, the length  *)
(* src_len and rate src_rate of the source recording, vocalization_type,   *)
(* and the loudness measured on the processed segment.                     *)

DurationInvalidShortOnly(duration) == duration < MIN_DURATION

\* duration < MIN_DURATION or duration > MAX_DURATION
DurationInvalid(duration) == duration < MIN_DURATION \/ duration > MAX_DURATION

\* start_sample < 0 or end_sample > len(audio)
SelectionOutOfBounds(start_sample, end_sample, n) ==
    start_sample < 0 \/ end_sample > n

\* len(segment) after audio[start_sample:end_sample], a selection within
\* the buffer, and the resampling
SegmentLength(r) ==
    LET start_sample == SecondsToSamples(r.start_time, r.src_rate)
        end_sample == SecondsToSamples(r.start_time + r.duration, r.src_rate)
        cut == end_sample - start_sample
    IN  IF r.src_rate # OUTPUT_SAMPLE_RATE
        THEN resample_length(cut, r.src_rate) ELSE cut

\* duration_ms = int(len(segment) / sr * 1000)
DurationMs(n, sr) == TruncDiv(n * 1000, sr)

\* the numbers after prefix in the clip ids that start with it
ExistingNums(clips, prefix) ==
    {ParseInt(DropFirst(clips[i].clip_id, Len(prefix))).value :
        i \in {k \in 1..Len(clips) :
                  /\ StartsWith(clips[k].clip_id, prefix)
                  /\ ParseInt(DropFirst(clips[k].clip_id, Len(prefix))).ok}}

\* "Determine clip ID" of clip_editor
EditorClipId(clips, r) ==
    LET prefix == IF r.xc_id # <<>>
                  THEN Upper(r.species_code) \o <<"_">> \o r.xc_id \o <<"_">>
                  ELSE Upper(r.species_code) \o <<"_", "clip", "_">>
    IN  IF r.replace_clip_id # <<>> THEN r.replace_clip_id
        ELSE prefix \o IntToStr(MaxOf(ExistingNums(clips, prefix)) + 1)

\* species_data.get(code, {}).get('common_name', code); the codes of the
\* model are all in species.json
CommonName(code) ==
    IF code = <<"CEWA">> THEN "Cedar Waxwing" ELSE "Yellow-rumped Warbler"

\* the index of the first record with this clip_id, 0 if there is none
FirstWithId(clips, clip_id) ==
    IF \E i \in 1..Len(clips) : clips[i].clip_id = clip_id
    THEN CHOOSE i \in 1..Len(clips) :
            /\ clips[i].clip_id = clip_id
            /\ \A j \in 1..(i - 1) : clips[j].clip_id # clip_id
    ELSE 0

\* clip_editor.extract_clip: what is in clips.json and on disk when it
\* returns (ok) or raises ValueError (not ok)
editor_extract_clip(clips, disk, r) ==
    LET start_sample == SecondsToSamples(r.start_time, r.src_rate)
        end_sample == SecondsToSamples(r.start_time + r.duration, r.src_rate)
        replacing == r.replace_clip_id # <<>>
        found == IF replacing THEN FirstWithId(clips, r.replace_clip_id) ELSE 0
        clip_id == EditorClipId(clips, r)
        duration_ms == DurationMs(SegmentLength(r), OUTPUT_SAMPLE_RATE)
        backups == IF replacing
                   THEN {Path("backups", f.name) :
                            f \in {WavOf(clip_id), PngOf(clip_id)} \cap disk}
                   ELSE {}
        clip_data ==
            IF replacing /\ found # 0
            THEN Put(Put(Put(Put(Put(clips[found],
                     "duration_ms", duration_ms),
                     "loudness_lufs", r.loudness),
                     "vocalization_type", r.vocalization_type),
                     "file_path", WavOf(clip_id)),
                     "spectrogram_path", PngOf(clip_id))
            ELSE [clip_id |-> clip_id,
                  species_code |-> Upper(r.species_code),
                  common_name |-> CommonName(Upper(r.species_code)),
                  vocalization_type |-> r.vocalization_type,
                  duration_ms |-> duration_ms,
                  quality_score |-> 5,
                  loudness_lufs |-> r.loudness,
                  source |-> IF r.xc_id # <<>> THEN "xenocanto" ELSE "unknown",
                  source_id |-> IF r.xc_id # <<>> THEN <<"XC">> \o r.xc_id
                                ELSE <<"None">>,
                  source_url |-> IF r.xc_id # <<>>
                                 THEN <<"https://xeno-canto.org/">> \o r.xc_id
                                 ELSE <<"None">>,
                  recordist |-> "Unknown",
                  file_path |-> WavOf(clip_id),
                  spectrogram_path |-> PngOf(clip_id),
                  canonical |-> FALSE,
                  rejected |-> FALSE]
        written ==
            IF replacing
            THEN [i \in 1..Len(clips) |-> IF i = found THEN clip_data ELSE clips[i]]
            ELSE Append(clips, clip_data)
    IN  IF DurationInvalid(r.duration)
        THEN [ok |-> FALSE, clips |-> clips, files |-> disk, clip_id |-> <<>>]
        ELSE IF SelectionOutOfBounds(start_sample, end_sample, r.src_len)
        THEN [ok |-> FALSE, clips |-> clips, files |-> disk, clip_id |-> <<>>]
        ELSE [ok |-> TRUE, clips |-> written,
              files |-> disk \cup backups \cup {WavOf(clip_id), PngOf(clip_id)},
              clip_id |-> clip_id]

\* clip_selector.extract_clip
selector_extract_clip(clips, disk, r) ==
    LET start_sample == SecondsToSamples(r.start_time, r.src_rate)
        end_sample == SecondsToSamples(r.start_time + r.duration, r.src_rate)
        prefix == r.species_code \o <<"_", "doc", "_">>
        next_num == MaxOf(ExistingNums(clips, prefix)) + 1
        clip_id == prefix \o IntToStr03(next_num)
        clip_data ==
            [clip_id |-> clip_id,
             species_code |-> r.species_code,
             common_name |-> CommonName(r.species_code),
             vocalization_type |-> r.vocalization_type,
             duration_ms |-> DurationMs(SegmentLength(r), OUTPUT_SAMPLE_RATE),
             quality_score |-> 4,
             loudness_lufs |-> r.loudness,
             source |-> "doc",
             source_start_sec |-> r.start_time,
             source_end_sec |-> r.start_time + r.duration,
             file_path |-> WavOf(clip_id),
             spectrogram_path |-> PngOf(clip_id),
             canonical |-> FALSE,
             rejected |-> FALSE,
             recordist |-> "DOC NZ (Crown Copyright)"]
    IN  IF DurationInvalid(r.duration)
        THEN [ok |-> FALSE, clips |-> clips, files |-> disk, clip_id |-> <<>>]
        ELSE IF CharLen(r.species_code) < 3 \/ CharLen(r.species_code) > 10
        THEN [ok |-> FALSE, clips |-> clips, files |-> disk, clip_id |-> <<>>]
        ELSE IF SelectionOutOfBounds(start_sample, end_sample, r.src_len)
        THEN [ok |-> FALSE, clips |-> clips, files |-> disk, clip_id |-> <<>>]
        ELSE [ok |-> TRUE, clips |-> Append(clips, clip_data),
              files |-> disk \cup {WavOf(clip_id), PngOf(clip_id)},
              clip_id |-> clip_id]

----------------------------------------------------------------------------
(* augment_species.augment_species                                         *)
(*                                                                         *)
(* recordings is what the Xeno-canto search returned: a sequence of        *)
(* [id, processed], processed telling whether download_and_process_clip    *)
(* succeeds on the recording.  data/rejected_xc_ids.json is absent.        *)

\* load_existing_xc_ids
ExistingXcIds(clips, species_code) ==
    {clips[i].xeno_canto_id :
        i \in {k \in 1..Len(clips) :
                  /\ Get(clips[k], "species_code", <<>>) = species_code
                  /\ Get(clips[k], "xeno_canto_id", <<>>) # <<>>}}

\* the clip dict built by download_and_process_clip
AugmentClip(species_code, recording) ==
    LET clip_id == species_code \o <<"_">> \o recording.id
    IN  [clip_id |-> clip_id,
         species_code |-> species_code,
         species_name |-> CommonName(species_code),
         file_path |-> WavOf(clip_id),
         xeno_canto_id |-> recording.id,
         vocalization_type |-> "song",
         quality_rating |-> "A",
         canonical |-> FALSE,
         rejected |-> FALSE,
         spectrogram_path |-> PngOf(clip_id),
         common_name |-> CommonName(species_code),
         quality_score |-> 4,
         source |-> "xenocanto",
         source_id |-> <<"XC">> \o recording.id,
         duration_ms |-> 3000,
         recordist |-> "Unknown"]

\* the files after the download loop: a processed recording leaves its wav
\* and png, a failed one has them removed by the clean-up
RECURSIVE AugmentFiles(_, _, _, _)
AugmentFiles(disk, species_code, to_download, i) ==
    IF i > Len(to_download) THEN disk
    ELSE LET clip_id == species_code \o <<"_">> \o to_download[i].id
             touched == {WavOf(clip_id), PngOf(clip_id)}
         IN  AugmentFiles(IF to_download[i].processed
                          THEN disk \cup touched ELSE disk \ touched,
                          species_code, to_download, i + 1)

\* search_xeno_canto answers only for the species it has a scientific name for
KnownToXenoCanto(species_code) ==
    species_code \in {<<"CEWA">>, <<"YRWA">>, <<"OCWA">>}

augment_species(clips, disk, species_code, recordings) ==
    LET existing_ids == ExistingXcIds(clips, species_code)
        found == IF KnownToXenoCanto(species_code) THEN recordings ELSE <<>>
        new_recordings == SelectSeq(found, LAMBDA rec : rec.id \notin existing_ids)
        to_download == Slice(new_recordings, 0, AUGMENT_MAX_CLIPS)
        processed == SelectSeq(to_download, LAMBDA rec : rec.processed)
        new_clips == [i \in 1..Len(processed) |->
                         AugmentClip(species_code, processed[i])]
        after == AugmentFiles(disk, species_code, to_download, 1)
    IN  IF Len(new_clips) = 0
        THEN [ok |-> FALSE, clips |-> clips, files |-> after]
        ELSE [ok |-> TRUE, clips |-> clips \o new_clips, files |-> after]

----------------------------------------------------------------------------
(* Specification of the catalog writers                                    *)

\* the selections a curator makes in a source recording:
\* 0.0-3.0 s of a 4.0 s recording, -0.1-2.9 s of a 4.0 s recording at 5 Hz
\* (int(-0.5) is 0), then a too short and a too long duration, a negative
\* start and an end beyond the recording
FullSelection ==
    [start_time |-> 0, duration |-> 30, src_len |-> 40, src_rate |-> 10]

Selections ==
    {FullSelection,
     [start_time |-> -1, duration |-> 30, src_len |-> 20, src_rate |-> 5],
     [start_time |-> 0, duration |-> 4, src_len |-> 40, src_rate |-> 10],
     [start_time |-> 0, duration |-> 31, src_len |-> 40, src_rate |-> 10],
     [start_time |-> -1, duration |-> 30, src_len |-> 40, src_rate |-> 10],
     [start_time |-> 20, duration |-> 30, src_len |-> 40, src_rate |-> 10]}

Measured == [vocalization_type |-> "call", loudness |-> -160]

UnknownId == <<"CEWA", "_", "9">>

NewCewaClip == [species_code |-> <<"CEWA">>, xc_id |-> <<>>, replace_clip_id |-> <<>>]

\* whom the clip is for: a new clip of a species, with or without a
\* Xeno-canto id, or the replacement of a clip
EditorTargets(clips) ==
    {NewCewaClip,
     [species_code |-> <<"CEWA">>, xc_id |-> <<"1">>, replace_clip_id |-> <<>>],
     [species_code |-> <<"yrwa">>, xc_id |-> <<>>, replace_clip_id |-> <<>>],
     [species_code |-> <<"CEWA">>, xc_id |-> <<>>, replace_clip_id |-> UnknownId]}
    \cup {[species_code |-> <<"CEWA">>, xc_id |-> <<>>,
           replace_clip_id |-> clips[i].clip_id] : i \in 1..Min(1, Len(clips))}

\* every target with the full selection, every selection for a new clip,
\* and the too long selection for every target
EditorRequests(clips) ==
    {sel @@ target @@ Measured :
        <<sel, target>> \in
            {st \in Selections \X EditorTargets(clips) :
                \/ st[1] = FullSelection
                \/ st[2] = NewCewaClip
                \/ st[1].duration > MAX_DURATION}}

SelectorRequests ==
    {sel @@ [species_code |-> code] @@ Measured :
        <<sel, code>> \in
            {sc \in Selections \X {<<"YRWA">>, <<"NZ">>} :
                \/ sc[1] = FullSelection
                \/ sc[2] = <<"YRWA">> /\ sc[1].src_rate = 10}}

UpdateSet ==
    {[canonical |-> TRUE],
     [canonical |-> FALSE, quality_score |-> 3, vocalization_type |-> "call"],
     [rejected |-> TRUE]}

\* the change sets of a review session: updates for at most two clips of
\* the catalog, or for a clip the catalog does not have
ChangeSets(clips) ==
    LET ids == {clips[i].clip_id : i \in 1..Len(clips)}
        domains == {d \in SUBSET ids : Cardinality(d) <= 2} \cup {{UnknownId}}
    IN  UNION {[d -> UpdateSet] : d \in domains}

Candidate1 ==
    [file_path |-> <<"CEWA", "_", "1", ".wav">>,
     species_name |-> "Cedar Waxwing",
     source_id |-> <<"XC", "1">>,
     vocalization_type |-> "call",
     recordist |-> "A. Recordist",
     duration_ms |-> 3000,
     loudness_lufs |-> -160]

\* a candidate without source_id and vocalization_type
Candidate2 ==
    [file_path |-> <<"YRWA", "_", "x", ".wav">>,
     species_name |-> "Yellow-rumped Warbler",
     duration_ms |-> 500,
     loudness_lufs |-> -161]

Manifests == {<<>>, <<Candidate1>>, <<Candidate2>>, <<Candidate1, Candidate2>>}

Recording(id, processed) == [id |-> id, processed |-> processed]

AugmentRuns ==
    {[species_code |-> <<"CEWA">>, recordings |-> <<Recording(<<"1">>, TRUE)>>],
     [species_code |-> <<"CEWA">>,
      recordings |-> <<Recording(<<"1">>, TRUE), Recording(<<"2">>, TRUE)>>],
     [species_code |-> <<"CEWA">>, recordings |-> <<Recording(<<"2">>, FALSE)>>],
     [species_code |-> <<"NZ">>, recordings |-> <<Recording(<<"1">>, TRUE)>>]}

\* the clips of the initial catalogs, as the tools write them
ClipA1 == AugmentClip(<<"CEWA">>, Recording(<<"1">>, TRUE))
ClipA2 == editor_extract_clip(<<>>, {}, FullSelection @@ NewCewaClip @@ Measured).clips[1]
ClipB == selector_extract_clip(<<>>, {},
             FullSelection @@ [species_code |-> <<"YRWA">>] @@ Measured).clips[1]

Canonical(clip) == Put(clip, "canonical", TRUE)
Rejected(clip) == Put(clip, "rejected", TRUE)

\* clips.json at the start: empty; two clips of a species, one canonical;
\* three clips; two canonical clips of one species (as a species-code
\* migration leaves them); a rejected record not yet dropped
InitialCatalogs ==
    {<<>>,
     <<Canonical(ClipA1), ClipA2>>,
     <<Canonical(ClipA1), ClipA2, ClipB>>,
     <<Canonical(ClipA1), Canonical(ClipA2)>>,
     <<Rejected(Canonical(ClipA1)), Canonical(ClipA2)>>}

\* every clip of the catalog has its audio file and its spectrogram
FilesOf(clips) ==
    UNION {{clips[i].file_path, clips[i].spectrogram_path} : i \in 1..Len(clips)}

InitCatalog ==
    /\ audio = <<>>
    /\ sample_rate = OUTPUT_SAMPLE_RATE
    /\ result = [op |-> "none"]
    /\ clips_json \in InitialCatalogs
    /\ clips_backup = <<>>
    /\ files = FilesOf(clips_json)
    /\ last = [op |-> "none"]
    /\ nops = 0

\* POST /api/save of review_clips: save_changes(changes); step 1 copies
\* clips.json to clips.json.backup before anything else
SaveChanges ==
    \E modified \in ChangeSets(clips_json) :
        LET r == save_changes(clips_json, files, modified)
        IN  /\ nops < MaxOps
            /\ clips_backup' = clips_json
            /\ clips_json' = r.clips
            /\ files' = r.files
            /\ last' = [op |-> "save_changes", ok |-> r.ok, modified |-> modified,
                        pre_clips |-> clips_json, pre_files |-> files]
            /\ nops' = nops + 1
            /\ UNCHANGED audioVars

\* python3 scripts/merge_candidates.py <dir>; the backup is made before the
\* new entries are built
MergeCandidates ==
    \E candidates \in Manifests :
        LET r == merge_candidates(clips_json, candidates)
        IN  /\ nops < MaxOps
            /\ Len(r.clips) <= MaxCatalog
            /\ clips_backup' = clips_json
            /\ clips_json' = r.clips
            /\ last' = [op |-> "merge_candidates", ok |-> r.ok,
                        candidates |-> candidates,
                        pre_clips |-> clips_json, pre_files |-> files]
            /\ nops' = nops + 1
            /\ UNCHANGED files
            /\ UNCHANGED audioVars

\* POST /api/extract of clip_editor
EditorExtract ==
    \E r \in EditorRequests(clips_json) :
        LET out == editor_extract_clip(clips_json, files, r)
        IN  /\ nops < MaxOps
            /\ Len(out.clips) <= MaxCatalog
            /\ clips_json' = out.clips
            /\ files' = out.files
            /\ last' = [op |-> "editor_extract_clip", ok |-> out.ok, request |-> r,
                        clip_id |-> out.clip_id,
                        pre_clips |-> clips_json, pre_files |-> files]
            /\ nops' = nops + 1
            /\ UNCHANGED clips_backup
            /\ UNCHANGED audioVars

\* POST /api/extract of clip_selector
SelectorExtract ==
    \E r \in SelectorRequests :
        LET out == selector_extract_clip(clips_json, files, r)
        IN  /\ nops < MaxOps
            /\ Len(out.clips) <= MaxCatalog
            /\ clips_json' = out.clips
            /\ files' = out.files
            /\ last' = [op |-> "selector_extract_clip", ok |-> out.ok, request |-> r,
                        clip_id |-> out.clip_id,
                        pre_clips |-> clips_json, pre_files |-> files]
            /\ nops' = nops + 1
            /\ UNCHANGED clips_backup
            /\ UNCHANGED audioVars

\* python3 scripts/augment_species.py <species>
AugmentSpecies ==
    \E run \in AugmentRuns :
        LET out == augment_species(clips_json, files, run.species_code, run.recordings)
        IN  /\ nops < MaxOps
            /\ Len(out.clips) <= MaxCatalog
            /\ clips_json' = out.clips
            /\ files' = out.files
            /\ last' = [op |-> "augment_species", ok |-> out.ok, run |-> run,
                        pre_clips |-> clips_json, pre_files |-> files]
            /\ nops' = nops + 1
            /\ UNCHANGED clips_backup
            /\ UNCHANGED audioVars

NextCatalog ==
    \/ SaveChanges
    \/ MergeCandidates
    \/ EditorExtract
    \/ SelectorExtract
    \/ AugmentSpecies

SpecCatalog == InitCatalog /\ [][NextCatalog]_vars

----------------------------------------------------------------------------
(* Properties of the catalog writers                                       *)

IsCanonical(clip) ==
    Get(clip, "canonical", FALSE) /\ ~Get(clip, "rejected", FALSE)

\* two canonical, non-rejected records of one species
TwoCanonicals(clips) ==
    \E i, j \in 1..Len(clips) :
        /\ i # j
        /\ IsCanonical(clips[i])
        /\ IsCanonical(clips[j])
        /\ clips[i].species_code = clips[j].species_code

\* C2: after a successful save_changes the saved catalog has at most one
\* canonical, non-rejected record per species_code; when the records with
\* the change set applied have two for a species, save_changes raises and
\* does not save
C2_CanonicalUnique ==
    last.op = "save_changes" =>
        /\ last.ok => ~TwoCanonicals(clips_json)
        /\ TwoCanonicals(ApplyModifications(last.pre_clips, last.modified)) =>
               ~last.ok /\ clips_json = last.pre_clips

\* a save that moved the canonical mark between two clips of a species
C2_Witness ==
    /\ last.op = "save_changes"
    /\ last.ok
    /\ \E i, j \in 1..Len(clips_json) :
           /\ i # j
           /\ clips_json[i].species_code = clips_json[j].species_code
           /\ clips_json[i].clip_id \in DOMAIN last.modified
           /\ "canonical" \in DOMAIN last.modified[clips_json[i].clip_id]
           /\ last.modified[clips_json[i].clip_id].canonical
           /\ IsCanonical(clips_json[i])
           /\ clips_json[j].clip_id \in DOMAIN last.modified
           /\ \E k \in 1..Len(last.pre_clips) :
                  /\ last.pre_clips[k].clip_id = clips_json[j].clip_id
                  /\ IsCanonical(last.pre_clips[k])

\* C3: when save_changes fails on the canonical validation, clips.json and
\* the clip files on disk are as they were before the call
C3_AbortLeavesUntouched ==
    (last.op = "save_changes" /\ ~last.ok) =>
        /\ clips_json = last.pre_clips
        /\ files = last.pre_files

\* a failed save whose change set also rejects a clip with files on disk
C3_Witness ==
    /\ last.op = "save_changes"
    /\ ~last.ok
    /\ FilesMarkedForDeletion(last.pre_clips, last.modified) \cap last.pre_files # {}

\* C4: the clip_id values of clips.json are pairwise distinct after any
\* sequence of catalog-adding operations on a catalog where they were
C4_UniqueClipIds ==
    \A i, j \in 1..Len(clips_json) :
        i # j => clips_json[i].clip_id # clips_json[j].clip_id

BadDuration(r) == r.duration < 5 \/ r.duration > 30

BadSelection(r) ==
    \/ TruncDiv(r.start_time * r.src_rate, 10) < 0
    \/ TruncDiv((r.start_time + r.duration) * r.src_rate, 10) > r.src_len

\* C5: extract_clip of clip_editor and of clip_selector, called with a
\* duration under 0.5 s or over 3.0 s or with a selection that starts before
\* sample 0 or ends after the last sample, raises and writes nothing: no
\* audio file, no spectrogram, no backup copy, clips.json unchanged
C5_InvalidExtractWritesNothing ==
    (/\ last.op \in {"editor_extract_clip", "selector_extract_clip"}
     /\ BadDuration(last.request) \/ BadSelection(last.request)) =>
        /\ ~last.ok
        /\ clips_json = last.pre_clips
        /\ files = last.pre_files

\* a too long replacement of a clip whose files are on disk, refused
C5_Witness ==
    /\ last.op = "editor_extract_clip"
    /\ last.request.duration > MAX_DURATION
    /\ ~BadSelection(last.request)
    /\ last.request.replace_clip_id # <<>>
    /\ WavOf(last.request.replace_clip_id) \in last.pre_files
    /\ ~last.ok

\* C6: a successful merge_candidates leaves at least as many records in
\* clips.json as there were; a merge that fails leaves clips.json unchanged
C6_MergeNeverShrinks ==
    last.op = "merge_candidates" =>
        /\ last.ok => Len(clips_json) >= Len(last.pre_clips)
        /\ ~last.ok => clips_json = last.pre_clips

\* a merge of candidates into a catalog that had records
C6_Witness ==
    /\ last.op = "merge_candidates"
    /\ last.ok
    /\ Len(last.pre_clips) >= 2
    /\ Len(last.candidates) >= 1

\* C7: after merge_candidates the records that were in clips.json are a
\* prefix of the new catalog, unchanged and in order, followed by one new
\* record per candidate of the manifest
C7_MergeAppendOnly ==
    (last.op = "merge_candidates" /\ last.ok) =>
        /\ Len(clips_json) = Len(last.pre_clips) + Len(last.candidates)
        /\ \A i \in 1..Len(last.pre_clips) : clips_json[i] = last.pre_clips[i]
        /\ \A k \in 1..Len(last.candidates) :
               clips_json[Len(last.pre_clips) + k].file_path.name
                   = last.candidates[k].file_path

\* a merge after which a canonical record of the old catalog comes first
\* and the candidate's record last
C7_Witness ==
    /\ last.op = "merge_candidates"
    /\ last.ok
    /\ last.pre_clips # <<>>
    /\ IsCanonical(last.pre_clips[1])
    /\ last.candidates # <<>>
    /\ clips_json[Len(clips_json)].source_id \in {<<"XC", "1">>, <<>>}
    /\ clips_json[Len(clips_json)].clip_id # last.pre_clips[1].clip_id

----------------------------------------------------------------------------
(* normalize_loudness                                                      *)
(*                                                                         *)
(* A sample of these buffers is an IEEE double: a finite value in          *)
(* hundredths of full scale (100 is 1.0), an infinity, or a NaN; a 32-bit  *)
(* float WAV file holds any of them and sf.read returns them as they are.  *)
(* A loudness is what pyloudnorm's meter returned, in tenths of a dB LUFS  *)
(* when finite.  The meter is a library outside the repository: its answer *)
(* is an input of the step.                                                *)

TARGET_LUFS == -160

Finite(v) == [kind |-> "finite", v |-> v]
Infinite(sign) == [kind |-> "inf", v |-> sign]
NaN == [kind |-> "nan", v |-> 0]

Sign(v) == IF v > 0 THEN 1 ELSE IF v < 0 THEN -1 ELSE 0

RECURSIVE Pow10(_)
Pow10(k) == IF k <= 0 THEN 1 ELSE 10 * Pow10(k - 1)

FiniteLoudness(db) == [kind |-> "finite", db |-> db]
NegInfLoudness == [kind |-> "neg_inf", db |-> 0]
PosInfLoudness == [kind |-> "pos_inf", db |-> 0]
NaNLoudness == [kind |-> "nan", db |-> 0]

IsUndefinedNanOnly(loudness) == loudness.kind = "nan"

\* np.isinf(loudness) or np.isnan(loudness)
IsUndefined(loudness) == loudness.kind \in {"neg_inf", "pos_inf", "nan"}

\* gain = 10 ** ((target - loudness) / 20) of pyln.normalize.loudness, for
\* loudness values a whole number of 20 dB steps from the target
Gain(loudness, target) ==
    CASE loudness.kind = "finite" ->
             [kind |-> "finite", exp |-> (target - loudness.db) \div 200]
      [] loudness.kind = "neg_inf" -> [kind |-> "inf", exp |-> 0]
      [] loudness.kind = "pos_inf" -> [kind |-> "zero", exp |-> 0]
      [] loudness.kind = "nan" -> [kind |-> "nan", exp |-> 0]

\* gain * x in IEEE arithmetic; the gain is positive
Times(gain, x) ==
    CASE gain.kind = "nan" \/ x.kind = "nan" -> NaN
      [] gain.kind = "inf" /\ x.kind = "finite" ->
             IF x.v = 0 THEN NaN ELSE Infinite(Sign(x.v))
      [] gain.kind = "inf" /\ x.kind = "inf" -> x
      [] gain.kind = "zero" /\ x.kind = "finite" -> Finite(0)
      [] gain.kind = "zero" /\ x.kind = "inf" -> NaN
      [] gain.kind = "finite" /\ x.kind = "inf" -> x
      [] gain.kind = "finite" /\ x.kind = "finite" ->
             IF gain.exp >= 0 THEN Finite(x.v * Pow10(gain.exp))
             ELSE Finite(TruncDiv(x.v, Pow10(-gain.exp)))

\* pyln.normalize.loudness(audio, loudness, target)
pyln_normalize(buffer, loudness, target) ==
    [i \in 1..Len(buffer) |-> Times(Gain(loudness, target), buffer[i])]

\* np.clip(x, -1.0, 1.0) of one sample: a NaN stays a NaN
Clip(x) ==
    CASE x.kind = "nan" -> x
      [] x.kind = "inf" -> Finite(100 * x.v)
      [] x.kind = "finite" -> Finite(Max(-100, Min(100, x.v)))

\* normalize_loudness of audio_ingest, cornell_ingest and nz_ingest, and the
\* "Normalize loudness" lines of both extract_clip: loudness is what
\* meter.integrated_loudness(audio) returned
normalize_loudness(buffer, loudness) ==
    IF IsUndefined(loudness) THEN buffer
    ELSE LET normalized == pyln_normalize(buffer, loudness, TARGET_LUFS)
         IN  [i \in 1..Len(normalized) |-> Clip(normalized[i])]

InRange(x) == x.kind = "finite" /\ x.v >= -100 /\ x.v <= 100

\* the "Normalize loudness" lines of clip_editor.extract_clip and of
\* clip_selector.extract_clip
extract_normalize(segment, loudness) ==
    IF loudness.kind \notin {"neg_inf", "pos_inf"} /\ loudness.kind # "nan"
    THEN LET normalized == pyln_normalize(segment, loudness, TARGET_LUFS)
         IN  [i \in 1..Len(normalized) |-> Clip(normalized[i])]
    ELSE segment

----------------------------------------------------------------------------
(* Specification of the loudness normalizer                                *)

\* longest buffer given to the normalizer, in samples
MaxLoudLen == 2

LoudnessSamples ==
    {Finite(v) : v \in {-150, -100, -10, 0, 10, 100, 150}}
        \cup {Infinite(1), Infinite(-1), NaN}

LoudnessBuffers ==
    UNION {[1..n -> LoudnessSamples] : n \in 1..MaxLoudLen}

FiniteReadings == {FiniteLoudness(db) : db \in {-360, -160, 40}}

\* what meter.integrated_loudness can return for a buffer: silence has no
\* finite loudness; any other buffer may read finite or, when its signal
\* falls outside the gated 400 ms blocks or is not finite, undefined
MeterReadings(buffer) ==
    IF \A i \in 1..Len(buffer) : buffer[i] = Finite(0)
    THEN {NegInfLoudness, NaNLoudness}
    ELSE FiniteReadings \cup {NegInfLoudness, PosInfLoudness, NaNLoudness}

InitLoudness ==
    /\ sample_rate = OUTPUT_SAMPLE_RATE
    /\ audio \in LoudnessBuffers
    /\ result = [op |-> "none"]
    /\ NoCatalog

\* audio = normalize_loudness(audio, sample_rate), then sf.write(audio)
Normalize ==
    \E loudness \in MeterReadings(audio) :
        /\ result.op = "none"
        /\ result' = [op |-> "normalize_loudness",
                      loudness |-> loudness,
                      audio |-> normalize_loudness(audio, loudness)]
        /\ UNCHANGED <<audio, sample_rate>>
        /\ UNCHANGED catalogVars

\* the normalization of the segment in extract_clip, then sf.write(segment)
ExtractNormalize ==
    \E loudness \in MeterReadings(audio) :
        /\ result.op = "none"
        /\ result' = [op |-> "extract_normalize",
                      loudness |-> loudness,
                      audio |-> extract_normalize(audio, loudness)]
        /\ UNCHANGED <<audio, sample_rate>>
        /\ UNCHANGED catalogVars

NextLoudness == Normalize \/ ExtractNormalize

SpecLoudness == InitLoudness /\ [][NextLoudness]_vars

\* C11: when the measured loudness is negative infinity or NaN, the
\* normalizer returns the buffer it was given, sample for sample
C11_UndefinedLoudnessUnchanged ==
    (/\ result.op \in {"normalize_loudness", "extract_normalize"}
     /\ result.loudness.kind \in {"neg_inf", "nan"}) =>
        result.audio = audio

\* an all-zero buffer, measured as negative infinity, has been normalized
C11_Witness ==
    /\ result.op = "normalize_loudness"
    /\ result.loudness.kind = "neg_inf"
    /\ \A i \in 1..Len(audio) : audio[i] = Finite(0)
    /\ Len(result.audio) = MaxLoudLen

\* C12: every sample of a buffer handed to the file writer lies in
\* [-1.0, 1.0], whichever branch the normalizer took
C12_SamplesInRange ==
    result.op \in {"normalize_loudness", "extract_normalize"} =>
        \A i \in 1..Len(result.audio) : InRange(result.audio[i])

----------------------------------------------------------------------------
(* Specification of the order of the pipeline stages                       *)
(*                                                                         *)
(* The control flow of the five clip-producing functions, one statement    *)
(* per step.  Here audio is the decoded file as far as the control flow    *)
(* depends on it: its number of channels and the number of clips the       *)
(* segment selector finds in it; result is the run: the function, the      *)
(* position in its statements and the stages executed so far.              *)

Stmt(stage, when) == [stage |-> stage, when |-> when]

\* the statements of a function before its loop over the clips
WholeFile(path) ==
    CASE path = "audio_ingest.process_audio_file" ->
             <<Stmt("downmix", "always"), Stmt("resample", "rate_differs"),
               Stmt("select_trim", "always")>>
      [] path = "cornell_ingest.process_cornell_file" ->
             <<Stmt("downmix", "always"), Stmt("resample", "rate_differs"),
               Stmt("select_trim", "always")>>
      [] path = "nz_ingest.process_audio_file" ->
             <<Stmt("downmix", "always"), Stmt("resample", "rate_differs"),
               Stmt("select_trim", "always")>>
      [] path = "clip_editor.extract_clip" ->
             <<Stmt("downmix", "stereo"), Stmt("select_trim", "always"),
               Stmt("resample", "rate_differs")>>
      [] path = "clip_selector.extract_clip" ->
             <<Stmt("downmix", "stereo"), Stmt("select_trim", "always"),
               Stmt("resample", "rate_differs")>>

\* the statements run for each clip
PerClip(path) ==
    IF path = "nz_ingest.process_audio_file"
    THEN <<Stmt("duration_enforce", "always"), Stmt("normalize", "always"),
           Stmt("persist", "always")>>
    ELSE <<Stmt("normalize", "always"), Stmt("persist", "always")>>

\* only the two batch functions cut several clips from one file
ClipsOf(path, decoded) ==
    IF path \in {"cornell_ingest.process_cornell_file", "nz_ingest.process_audio_file"}
    THEN decoded.clips ELSE 1

\* the statements of a run in program order, each with the clip it works
\* on (0 for the whole file)
Program(path, decoded) ==
    LET whole == WholeFile(path)
        per == PerClip(path)
        n == ClipsOf(path, decoded)
    IN  [i \in 1..Len(whole) |-> [stage |-> whole[i].stage, when |-> whole[i].when,
                                  clip |-> 0]]
        \o [i \in 1..(n * Len(per)) |->
               [stage |-> per[((i - 1) % Len(per)) + 1].stage,
                when |-> per[((i - 1) % Len(per)) + 1].when,
                clip |-> ((i - 1) \div Len(per)) + 1]]

\* whether the condition of a statement holds for this file
Runs(stmt, decoded, sr) ==
    CASE stmt.when = "always" -> TRUE
      [] stmt.when = "stereo" -> decoded.channels > 1
      [] stmt.when = "rate_differs" -> sr # OUTPUT_SAMPLE_RATE

\* the position of the next statement that runs, 0 at the end
NextStmt(program, pc, decoded, sr) ==
    LET later == {i \in (pc + 1)..Len(program) : Runs(program[i], decoded, sr)}
    IN  IF later = {} THEN 0 ELSE CHOOSE i \in later : \A j \in later : i <= j

Paths ==
    {"audio_ingest.process_audio_file", "cornell_ingest.process_cornell_file",
     "nz_ingest.process_audio_file", "clip_editor.extract_clip",
     "clip_selector.extract_clip"}

DecodedFiles ==
    {[channels |-> c, clips |-> k] : c \in {1, 2}, k \in 1..MAX_CLIPS_PER_FILE}

InitPipeline ==
    /\ sample_rate \in SourceRates
    /\ audio \in DecodedFiles
    /\ result \in {[op |-> path, pc |-> 0, stages |-> <<>>] : path \in Paths}
    /\ NoCatalog

\* the position of the statement the run executes next, 0 at the end
NextPc ==
    NextStmt(Program(result.op, audio), result.pc, audio, sample_rate)

\* the next statement of the run is of this stage
AtStage(stage) ==
    /\ NextPc # 0
    /\ Program(result.op, audio)[NextPc].stage = stage

\* the run after its next statement: the stage is logged with its clip
Advanced ==
    [result EXCEPT
        !.pc = NextPc,
        !.stages = Append(@, [stage |-> Program(result.op, audio)[NextPc].stage,
                              clip |-> Program(result.op, audio)[NextPc].clip])]

\* convert_to_mono(audio), np.mean(audio, axis=1)
Downmix ==
    /\ AtStage("downmix")
    /\ result' = Advanced
    /\ UNCHANGED <<audio, sample_rate>>
    /\ UNCHANGED catalogVars

\* the "Resample if needed" block
ResampleStage ==
    /\ AtStage("resample")
    /\ result' = Advanced
    /\ UNCHANGED <<audio, sample_rate>>
    /\ UNCHANGED catalogVars

\* trim_audio, extract_clips, audio[start_sample:end_sample]
SelectTrim ==
    /\ AtStage("select_trim")
    /\ result' = Advanced
    /\ UNCHANGED <<audio, sample_rate>>
    /\ UNCHANGED catalogVars

\* the pad / trim of a clip in nz_ingest
DurationEnforce ==
    /\ AtStage("duration_enforce")
    /\ result' = Advanced
    /\ UNCHANGED <<audio, sample_rate>>
    /\ UNCHANGED catalogVars

\* normalize_loudness, or its inline copy
NormalizeStage ==
    /\ AtStage("normalize")
    /\ result' = Advanced
    /\ UNCHANGED <<audio, sample_rate>>
    /\ UNCHANGED catalogVars

\* sf.write
Persist ==
    /\ AtStage("persist")
    /\ result' = Advanced
    /\ UNCHANGED <<audio, sample_rate>>
    /\ UNCHANGED catalogVars

NextPipeline ==
    \/ Downmix
    \/ ResampleStage
    \/ SelectTrim
    \/ DurationEnforce
    \/ NormalizeStage
    \/ Persist

SpecPipeline == InitPipeline /\ [][NextPipeline]_vars

StageRank(stage) ==
    CASE stage = "downmix" -> 1
      [] stage = "resample" -> 2
      [] stage = "select_trim" -> 3
      [] stage = "duration_enforce" -> 4
      [] stage = "normalize" -> 5
      [] stage = "persist" -> 6

\* C13: in every clip-producing function the stages run in the order
\* downmix, resample, segment select/trim, duration enforce, normalize,
\* persist: of two stages run on the file or on one of its clips, the
\* later one is not earlier in this order
C13_StageOrder ==
    result.op \in Paths =>
        \A i, j \in 1..Len(result.stages) :
            (/\ i < j
             /\ \/ result.stages[i].clip = 0
                \/ result.stages[j].clip = result.stages[i].clip) =>
                StageRank(result.stages[i].stage) <= StageRank(result.stages[j].stage)

----------------------------------------------------------------------------
(* Specification of the batch ingests                                      *)
(*                                                                         *)
(* ingest_from_xeno_canto, ingest_nz_birds and ingest_cornell_audio, and   *)
(* the main() that calls them.  A run works through groups of recordings:  *)
(* the species of the list for the first two (the recordings of a species  *)
(* are what the metadata query, or the NZ_SPECIES table, lists), the one   *)
(* input directory for the third.  Here result is the run: the function,   *)
(* the position in its loops, the log of what happened to every recording  *)
(* and the processed_files list; what the network and the decoder answer   *)
(* is chosen at each step.                                                 *)

\* most species in a run, most recordings listed for one of them
MaxGroups == 2
MaxRecordings == 2

BatchFunctions ==
    {"ingest_from_xeno_canto", "ingest_nz_birds", "ingest_cornell_audio"}

\* the species of a run: the species list, or the one directory
GroupCounts(op) ==
    IF op = "ingest_cornell_audio" THEN {1} ELSE 1..MaxGroups

\* most clips one recording yields: process_audio_file of audio_ingest
\* writes one file, the other two up to three
MaxClipsOf(op) ==
    IF op = "ingest_from_xeno_canto" THEN 1 ELSE MAX_CLIPS_PER_FILE

InitBatch ==
    /\ audio = <<>>
    /\ sample_rate = OUTPUT_SAMPLE_RATE
    /\ result \in {[op |-> op, pc |-> "list", ngroups |-> n, group |-> 1,
                    nrecs |-> 0, rec |-> 0, log |-> <<>>,
                    processed_files |-> <<>>, exit_status |-> -1] :
                      op \in BatchFunctions, n \in UNION {GroupCounts(o) : o \in BatchFunctions}}
    /\ result.ngroups \in GroupCounts(result.op)
    /\ NoCatalog

Logged(run, outcome) ==
    [run EXCEPT !.log = Append(@, [group |-> run.group, rec |-> run.rec,
                                   outcome |-> outcome, listed |-> run.nrecs])]

\* the loops move on: the next recording of the species, or the next species
NextItem(run) ==
    IF run.rec < run.nrecs
    THEN [run EXCEPT !.pc = "item", !.rec = run.rec + 1]
    ELSE [run EXCEPT !.pc = "list", !.group = run.group + 1, !.nrecs = 0, !.rec = 0]

RaiseAfterFailure(run) == [run EXCEPT !.pc = "returned"]

\* "continue" after a failed download, the end of the loop body after a
\* failed process_audio_file
ContinueAfterFailure(run) == NextItem(run)

\* the recordings of the next species are listed: the query answers with
\* matching recordings, the table has the species, the directory has files
ListRecordings ==
    \E n \in 1..MaxRecordings :
        /\ result.pc = "list"
        /\ result.group <= result.ngroups
        /\ result' = NextItem(Logged([result EXCEPT !.nrecs = n], "listed"))
        /\ UNCHANGED <<audio, sample_rate>>
        /\ UNCHANGED catalogVars

\* nothing is listed: fetch_xeno_canto_recordings caught an error or a
\* timeout, or found nothing; the species code is not in NZ_SPECIES; the
\* directory has no mp3 file
ListFails ==
    /\ result.pc = "list"
    /\ result.group <= result.ngroups
    /\ result' = ContinueAfterFailure(Logged(result, "not_listed"))
    /\ UNCHANGED <<audio, sample_rate>>
    /\ UNCHANGED catalogVars

\* a recording is passed over before any download: no file URL; an intro,
\* unparsable or already processed Cornell file
SkipRecording ==
    /\ result.pc = "item"
    /\ result.op # "ingest_nz_birds"
    /\ result' = NextItem(Logged(result, "skipped"))
    /\ UNCHANGED <<audio, sample_rate>>
    /\ UNCHANGED catalogVars

\* download_audio / download_file returned False
DownloadFails ==
    /\ result.pc = "item"
    /\ result.op # "ingest_cornell_audio"
    /\ result' = ContinueAfterFailure(Logged(result, "download_failed"))
    /\ UNCHANGED <<audio, sample_rate>>
    /\ UNCHANGED catalogVars

\* the process function caught an exception: success False, or []
ProcessFails ==
    /\ result.pc = "item"
    /\ result' = ContinueAfterFailure(Logged(result, "processing_failed"))
    /\ UNCHANGED <<audio, sample_rate>>
    /\ UNCHANGED catalogVars

\* the process function returned its clips, one or as many as it can
\* cut: one record each is appended
ProcessSucceeds ==
    \E k \in {1, MaxClipsOf(result.op)} :
        /\ result.pc = "item"
        /\ result' = NextItem(
               [Logged(result, "ok") EXCEPT
                   !.processed_files =
                       @ \o [c \in 1..k |-> [group |-> result.group,
                                            rec |-> result.rec, clip |-> c]]])
        /\ UNCHANGED <<audio, sample_rate>>
        /\ UNCHANGED catalogVars

\* return processed_files
ReturnProcessed ==
    /\ result.pc = "list"
    /\ result.group > result.ngroups
    /\ result' = [result EXCEPT !.pc = "returned"]
    /\ UNCHANGED <<audio, sample_rate>>
    /\ UNCHANGED catalogVars

ExitStatusAllOk(run) ==
    IF \A i \in 1..Len(run.log) : run.log[i].outcome \in {"ok", "listed"}
    THEN 0 ELSE 1

\* return 0 if len(processed) > 0 else 1
ExitStatus(run) == IF Len(run.processed_files) > 0 THEN 0 ELSE 1

\* the end of main()
Exit ==
    /\ result.pc = "returned"
    /\ result' = [result EXCEPT !.pc = "exited", !.exit_status = ExitStatus(result)]
    /\ UNCHANGED <<audio, sample_rate>>
    /\ UNCHANGED catalogVars

NextBatch ==
    \/ ListRecordings
    \/ ListFails
    \/ SkipRecording
    \/ DownloadFails
    \/ ProcessFails
    \/ ProcessSucceeds
    \/ ReturnProcessed
    \/ Exit

SpecBatch == InitBatch /\ [][NextBatch]_vars

\* the log entries of the recordings that were downloaded and processed
\* into clips, in order
SucceededItems(run) ==
    SelectSeq(run.log, LAMBDA e : e.outcome = "ok")

\* C14: in ingest_from_xeno_canto and ingest_nz_birds a failed item never
\* stops the run: until the function has returned there is a next step;
\* when it returns, every species of the list has been queried and every
\* recording listed for it has been attempted, and the returned list holds
\* records of the recordings that succeeded and of no other
C14_FailureNeverStopsRun ==
    result.op \in {"ingest_from_xeno_canto", "ingest_nz_birds"} =>
        /\ result.pc \in {"list", "item"} => ENABLED NextBatch
        /\ result.pc \in {"returned", "exited"} =>
               /\ \A g \in 1..result.ngroups :
                      \E i \in 1..Len(result.log) :
                          /\ result.log[i].group = g
                          /\ result.log[i].outcome \in {"listed", "not_listed"}
                          /\ \A r \in 1..result.log[i].listed :
                                 \E j \in 1..Len(result.log) :
                                     /\ result.log[j].group = g
                                     /\ result.log[j].rec = r
                                     /\ result.log[j].outcome \notin {"listed", "not_listed"}
               /\ \A k \in 1..Len(result.processed_files) :
                      \E j \in 1..Len(result.log) :
                          /\ result.log[j].group = result.processed_files[k].group
                          /\ result.log[j].rec = result.processed_files[k].rec
                          /\ result.log[j].outcome = "ok"
               /\ \A j \in 1..Len(result.log) :
                      result.log[j].outcome = "ok" =>
                          \E k \in 1..Len(result.processed_files) :
                              /\ result.processed_files[k].group = result.log[j].group
                              /\ result.processed_files[k].rec = result.log[j].rec

\* a run that returned after a failed download in its first species and a
\* processed recording in its last
C14_Witness ==
    /\ result.op = "ingest_from_xeno_canto"
    /\ result.pc = "returned"
    /\ result.ngroups = MaxGroups
    /\ \E i, j \in 1..Len(result.log) :
           /\ i < j
           /\ result.log[i].group = 1
           /\ result.log[i].outcome = "download_failed"
           /\ result.log[j].group = result.ngroups
           /\ result.log[j].rec = result.log[j].listed
           /\ result.log[j].outcome = "ok"

\* C15: main() of the batch ingests exits with a non-zero status exactly
\* when no recording was processed into a clip, and with 0 when at least
\* one was, whatever happened to the others
C15_ExitStatus ==
    result.pc = "exited" =>
        /\ result.exit_status = 0 <=> Len(SucceededItems(result)) > 0
        /\ result.exit_status # 0 <=> Len(SucceededItems(result)) = 0

\* a run that exits with 0 after one recording failed and one succeeded
C15_Witness ==
    /\ result.pc = "exited"
    /\ result.exit_status = 0
    /\ \E i \in 1..Len(result.log) :
           result.log[i].outcome \in {"download_failed", "processing_failed"}
    /\ Len(SucceededItems(result)) = 1

----------------------------------------------------------------------------
(* normalize_clips.normalize_clip                                          *)
(*                                                                         *)
(* A vocalization_type is a sequence of tokens: words, " ", "-".           *)

\* valid_types, the same list as VOCALIZATION_TYPES of review_clips
ValidTypes ==
    {<<"song">>, <<"call">>, <<"flight", " ", "call">>, <<"alarm", " ", "call">>,
     <<"chip">>, <<"drum">>, <<"wing", " ", "sound">>, <<"rattle">>, <<"trill">>,
     <<"other">>}

\* s.lower(), for the word the model writes in capitals
Lower(s) ==
    [i \in 1..Len(s) |-> IF s[i] = "CALL" THEN "call" ELSE s[i]]

\* word in token, as strings of characters
WithinToken(word, token) ==
    \/ token = word
    \/ word = "chip" /\ token = "chipping"
    \/ word = "drum" /\ token = "drumming"

\* word in s, for a word of one token
HasWord(s, word) == \E i \in 1..Len(s) : WithinToken(word, s[i])

\* needle in s, for a needle of several tokens
HasTokens(s, needle) ==
    \E i \in 1..(Len(s) - Len(needle) + 1) :
        SubSeq(s, i, i + Len(needle) - 1) = needle

\* the if / elif chain on voc_lower
NormalizedType(voc_type) ==
    LET voc_lower == Lower(voc_type)
    IN  IF HasWord(voc_lower, "song") THEN <<"song">>
        ELSE IF \/ HasWord(voc_lower, "flight")
                \/ HasTokens(voc_lower, <<"flight", "-", "call">>)
             THEN <<"flight", " ", "call">>
        ELSE IF HasWord(voc_lower, "alarm") THEN <<"alarm", " ", "call">>
        ELSE IF HasWord(voc_lower, "chip") \/ HasWord(voc_lower, "chipping")
             THEN <<"chip">>
        ELSE IF HasWord(voc_lower, "drum") \/ HasWord(voc_lower, "drumming")
             THEN <<"drum">>
        ELSE IF HasWord(voc_lower, "wing") THEN <<"wing", " ", "sound">>
        ELSE IF HasWord(voc_lower, "rattle") \/ HasWord(voc_lower, "rattling")
             THEN <<"rattle">>
        ELSE IF HasWord(voc_lower, "trill") THEN <<"trill">>
        ELSE IF HasWord(voc_lower, "call") THEN <<"call">>
        ELSE <<"other">>

KeepType(voc_type) == voc_type

\* what clip['vocalization_type'] is set to, or left at
NormalizeType(voc_type) ==
    IF voc_type \in ValidTypes THEN voc_type ELSE NormalizedType(voc_type)

\* "if old_field in clip and new_field not in clip"
CopyField(clip, old_field, new_field) ==
    IF old_field \in DOMAIN clip /\ new_field \notin DOMAIN clip
    THEN Put(clip, new_field, clip[old_field]) ELSE clip

\* Path(clip['file_path']).stem: the file name without its extension
Stem(path) ==
    IF path.name # <<>> /\ path.name[Len(path.name)] = ".wav"
    THEN SubSeq(path.name, 1, Len(path.name) - 1) ELSE path.name

\* score_map
QualityScoreOf(letter) ==
    CASE letter = "A" -> 5 [] letter = "B" -> 4 [] letter = "C" -> 3
      [] letter = "D" -> 2 [] letter = "E" -> 1

\* normalize_clip(clip, index): the clip after the call
normalize_clip(clip, index) ==
    LET c1 == CopyField(clip, "species_name", "common_name")
        c2 == CopyField(c1, "xeno_canto_id", "source_id")
        c3 == CopyField(c2, "quality_rating", "quality_score")
        c4 == IF /\ "quality_score" \notin DOMAIN c3
                 /\ "quality" \in DOMAIN c3
                 /\ c3.quality \in {"A", "B", "C", "D", "E"}
              THEN Put(c3, "quality_score", QualityScoreOf(c3.quality)) ELSE c3
        c5 == IF "clip_id" \in DOMAIN c4 THEN c4
              ELSE IF "file_path" \in DOMAIN c4
              THEN Put(c4, "clip_id", Stem(c4.file_path))
              ELSE Put(c4, "clip_id", <<"clip", "_">> \o IntToStr(index))
        c6 == IF "source_id" \in DOMAIN c5 THEN c5
              ELSE Put(c5, "source_id", c5.clip_id)
        c7 == IF "vocalization_type" \in DOMAIN c6
              THEN Put(c6, "vocalization_type", NormalizeType(c6.vocalization_type))
              ELSE c6
        c8 == IF "canonical" \in DOMAIN c7 THEN c7 ELSE Put(c7, "canonical", FALSE)
    IN  IF "rejected" \in DOMAIN c8 THEN c8 ELSE Put(c8, "rejected", FALSE)

\* whether normalize_clip reports changes for the clip: the copies, the
\* conversions and the generated ids, not the two boolean defaults
ReportsChanges(clip, index) ==
    LET full == normalize_clip(clip, index)
    IN  \E key \in DOMAIN full \ {"canonical", "rejected"} :
            key \notin DOMAIN clip \/ clip[key] # full[key]

\* normalize_clips(clips_path) without --dry-run: what is in the file after
normalize_clips(clips) ==
    IF \E i \in 1..Len(clips) : ReportsChanges(clips[i], i - 1)
    THEN [i \in 1..Len(clips) |-> normalize_clip(clips[i], i - 1)]
    ELSE clips

MaxVocLen == 3

\* the words a vocalization_type is written with; "x" is any other word
VocTokens ==
    {"song", "call", "CALL", "flight", "alarm", "chip", "chipping", "drum",
     "wing", "rattle", "trill", "other", "sound", " ", "-", "x"}

VocStrings == UNION {[1..n -> VocTokens] : n \in 0..MaxVocLen}

\* a record as the early ingest wrote it, and a record of the present schema
LegacyClip ==
    [species_code |-> <<"CEWA">>, species_name |-> <<"Waxwing">>,
     xeno_canto_id |-> <<"1">>, quality |-> "A",
     file_path |-> ClipA1.file_path]

NormalizeCatalogs ==
    {<<Put(base, "vocalization_type", voc)>> :
        base \in {LegacyClip, ClipB}, voc \in VocStrings}
    \cup {<<LegacyClip>>}

InitNormalize ==
    /\ audio = <<>>
    /\ sample_rate = OUTPUT_SAMPLE_RATE
    /\ result = [op |-> "none"]
    /\ clips_json \in NormalizeCatalogs
    /\ clips_backup = <<>>
    /\ files = {}
    /\ last = [op |-> "none"]
    /\ nops = 0

\* python3 scripts/normalize_clips.py [--dry-run]
NormalizeClips ==
    \E dry_run \in BOOLEAN :
        /\ nops < MaxOps
        /\ clips_json' = IF dry_run THEN clips_json ELSE normalize_clips(clips_json)
        /\ last' = [op |-> "normalize_clips", dry_run |-> dry_run,
                    pre_clips |-> clips_json,
                    normalized |-> [i \in 1..Len(clips_json) |->
                                       normalize_clip(clips_json[i], i - 1)]]
        /\ nops' = nops + 1
        /\ UNCHANGED <<audio, sample_rate, result, clips_backup, files>>

NextNormalize == NormalizeClips

SpecNormalize == InitNormalize /\ [][NextNormalize]_vars

Keywords ==
    {"song", "flight", "alarm", "chip", "drum", "wing", "rattle", "rattling",
     "trill", "call"}

MatchesNoRule(voc_type) ==
    \A i \in 1..Len(voc_type) : \A word \in Keywords :
        ~WithinToken(word, Lower(voc_type)[i])

\* C16: after normalize_clip every vocalization_type is one of the ten values
\* of the enumeration; a value that was one of them is unchanged; a value in
\* which no keyword occurs is 'other'; normalizing the result again gives the
\* same record, and a second run of the script leaves the file as it is.
C16_VocalizationEnumeration ==
    last.op = "normalize_clips" =>
        /\ \A i \in 1..Len(last.pre_clips) :
              "vocalization_type" \in DOMAIN last.pre_clips[i] =>
                  LET before == last.pre_clips[i].vocalization_type
                      after == last.normalized[i].vocalization_type
                  IN  /\ after \in ValidTypes
                      /\ before \in ValidTypes => after = before
                      /\ MatchesNoRule(before) /\ before \notin ValidTypes
                            => after = <<"other">>
                      /\ normalize_clip(last.normalized[i], i - 1)
                            = last.normalized[i]
                      /\ ~last.dry_run =>
                            clips_json[i].vocalization_type = after
        /\ ~last.dry_run => normalize_clips(clips_json) = clips_json

C16_Witness ==
    /\ last.op = "normalize_clips"
    /\ ~last.dry_run
    /\ "vocalization_type" \in DOMAIN last.pre_clips[1]
    /\ last.pre_clips[1].vocalization_type = <<"CALL", "-", "flight">>
    /\ clips_json[1].vocalization_type = <<"flight", " ", "call">>

----------------------------------------------------------------------------
(* Claims on what a save removes                                           *)

\* the records of the loaded catalog that the save dropped
RemovedBySave ==
    {i \in 1..Len(last.pre_clips) :
        \A j \in 1..Len(clips_json) :
            clips_json[j].clip_id # last.pre_clips[i].clip_id}

\* C17: after a successful save_changes, every record that the save removed
\* from the catalog (rejected by the change set or already rejected in the
\* loaded catalog) has neither its audio file nor its spectrogram on disk.
C17_RemovedRecordsHaveNoFiles ==
    last.op = "save_changes" /\ last.ok =>
        \A i \in RemovedBySave :
            /\ last.pre_clips[i].file_path \notin files
            /\ last.pre_clips[i].spectrogram_path \notin files

----------------------------------------------------------------------------
(* cornell_ingest.process_cornell_file                                     *)
(*                                                                         *)
(* audio and sample_rate are the mono buffer and the rate after the        *)
(* resample step; the clips are described by their number of samples.      *)

\* pyln.Meter(sample_rate) measures in blocks of 0.4 s, in tenths of a second
MeterBlockSize == 4

\* meter.integrated_loudness(data) raises ValueError for less than one block
MeterRaises(data, sr) == Len(data) < SecondsToSamples(MeterBlockSize, sr)

\* the clips process_cornell_file writes before it returns or raises, and the
\* list it returns: [] when a measurement raised
process_cornell_file(a, sr) ==
    LET clips == extract_clips(a, sr, CORNELL_TARGET_DURATION)
        raising == {i \in 1..Len(clips) : MeterRaises(clips[i], sr)}
        done == IF raising = {} THEN Len(clips)
                ELSE (CHOOSE i \in raising : \A j \in raising : i <= j) - 1
        entry(i) == [clip_num |-> i, samples |-> Len(clips[i]),
                     duration_ms |-> DurationMs(Len(clips[i]), sr)]
    IN  [written |-> [i \in 1..done |-> entry(i)],
         processed_files |-> IF raising = {} THEN [i \in 1..done |-> entry(i)]
                             ELSE <<>>]

\* processed = process_cornell_file(str(audio_file), output_dir, file_info)
ProcessCornellFile ==
    /\ result.op = "none"
    /\ result' = [op |-> "process_cornell_file"]
                     @@ process_cornell_file(audio, sample_rate)
    /\ UNCHANGED <<audio, sample_rate>>
    /\ UNCHANGED catalogVars

NextCornell == ProcessCornellFile

SpecCornell == InitExtract /\ [][NextCornell]_vars

\* C18: every clip process_cornell_file returns, and every WAV file it has
\* written, lasts at least MIN_DURATION and at most MAX_DURATION, whatever
\* the length of the source.
C18_CornellDurations ==
    result.op = "process_cornell_file" =>
        \A list \in {result.processed_files, result.written} :
            \A i \in 1..Len(list) :
                /\ list[i].samples * 10 >= MIN_DURATION * sample_rate
                /\ list[i].samples * 10 <= MAX_DURATION * sample_rate

----------------------------------------------------------------------------
(* Clip ids of the curation tools over catalogs with arbitrary suffixes    *)

MaxSuffixLen == 3

\* what follows the prefix in a clip_id of the catalog: digits, a sign,
\* another character
SuffixTokens == {"0", "1", "9", "-", "x"}

Suffixes == UNION {[1..n -> SuffixTokens] : n \in 0..MaxSuffixLen}

\* the suffix of a second clip with the same prefix
SecondSuffixes ==
    {<<"1">>, <<"0", "0", "1">>, <<"-", "1">>, <<"x">>, <<"9", "9", "9">>}

\* the prefixes of clip_editor (generic and Xeno-canto) and of clip_selector
IdPrefixes ==
    {<<"CEWA", "_", "clip", "_">>, <<"CEWA", "_", "1", "_">>,
     <<"YRWA", "_", "doc", "_">>}

ClipWithId(clip_id) ==
    [clip_id |-> clip_id, file_path |-> WavOf(clip_id),
     spectrogram_path |-> PngOf(clip_id)] @@ ClipA2

\* clips.json with one or two clips of one prefix, or none
IdCatalogs ==
    {<<>>}
    \cup {<<ClipWithId(prefix \o s)>> : prefix \in IdPrefixes, s \in Suffixes}
    \cup {<<ClipWithId(p[1] \o p[2]), ClipWithId(p[1] \o p[3])>> :
            p \in {q \in IdPrefixes \X Suffixes \X SecondSuffixes : q[2] # q[3]}}

\* one request is served on the loaded catalog
InitClipIds ==
    /\ audio = <<>>
    /\ sample_rate = OUTPUT_SAMPLE_RATE
    /\ result = [op |-> "none"]
    /\ clips_json \in IdCatalogs
    /\ clips_backup = <<>>
    /\ files = FilesOf(clips_json)
    /\ last = [op |-> "none"]
    /\ nops = MaxOps - 1

NextClipIds == EditorExtract \/ SelectorExtract

SpecClipIds == InitClipIds /\ [][NextClipIds]_vars

\* the prefix of the request served last
LastPrefix ==
    IF last.op = "selector_extract_clip"
    THEN last.request.species_code \o <<"_", "doc", "_">>
    ELSE IF last.request.xc_id # <<>>
    THEN Upper(last.request.species_code) \o <<"_">> \o last.request.xc_id \o <<"_">>
    ELSE Upper(last.request.species_code) \o <<"_", "clip", "_">>

NewClipAssigned ==
    /\ last.op \in {"editor_extract_clip", "selector_extract_clip"}
    /\ last.ok
    /\ last.op = "editor_extract_clip" => last.request.replace_clip_id = <<>>

\* C20: a new clip gets the id prefix + N with N one more than the largest
\* integer suffix of the catalog's ids with that prefix (1 if there is none),
\* written with at least three digits by clip_selector, and no clip of the
\* loaded catalog has that id.
C20_NewClipIdFresh ==
    NewClipAssigned =>
        LET suffix == DropFirst(last.clip_id, Len(LastPrefix))
            n == ParseInt(suffix)
            existing == {ParseInt(DropFirst(last.pre_clips[i].clip_id,
                                            Len(LastPrefix))).value :
                            i \in {k \in 1..Len(last.pre_clips) :
                                /\ StartsWith(last.pre_clips[k].clip_id, LastPrefix)
                                /\ ParseInt(DropFirst(last.pre_clips[k].clip_id,
                                                      Len(LastPrefix))).ok}}
        IN  /\ StartsWith(last.clip_id, LastPrefix)
            /\ n.ok
            /\ \A v \in existing : v < n.value
            /\ IF existing = {} THEN n.value = 1 ELSE n.value - 1 \in existing
            /\ last.op = "selector_extract_clip" =>
                  /\ Len(suffix) >= 3
                  /\ Len(suffix) > 3 => suffix[1] # "0"
            /\ last.op = "editor_extract_clip" =>
                  suffix[1] # "0" \/ suffix = <<"0">>
            /\ \A i \in 1..Len(last.pre_clips) :
                  last.pre_clips[i].clip_id # last.clip_id

C20_Witness ==
    /\ NewClipAssigned
    /\ last.op = "selector_extract_clip"
    /\ Len(last.pre_clips) = 2
    /\ last.pre_clips[1].clip_id = <<"YRWA", "_", "doc", "_", "-", "x">>
    /\ last.pre_clips[2].clip_id = <<"YRWA", "_", "doc", "_", "0", "0", "1">>
    /\ last.clip_id = <<"YRWA", "_", "doc", "_", "0", "0", "2">>

----------------------------------------------------------------------------
(* The rewrite of clips.json, step by step                                 *)
(*                                                                         *)
(* with open(path, 'w') as f: json.dump(clips, f, indent=2).  clips_json   *)
(* holds the records that are in the file, result the writer: where it is  *)
(* (pc), the catalog it loaded (old) and the one it is writing (new); last *)
(* is what a reader of the file got.  The text in the file is a complete   *)
(* JSON list only when no writer has it open.                              *)

\* the catalogs the four writers dump for the loaded catalog
CatalogsToWrite(clips, disk) ==
    {save_changes(clips, disk, modified).clips :
        modified \in {m \in ChangeSets(clips) : save_changes(clips, disk, m).ok}}
    \cup {merge_candidates(clips, candidates).clips : candidates \in Manifests}
    \cup {editor_extract_clip(clips, disk, FullSelection @@ NewCewaClip @@ Measured).clips}
    \cup {augment_species(clips, disk, run.species_code, run.recordings).clips :
            run \in {a \in AugmentRuns :
                augment_species(clips, disk, a.species_code, a.recordings).ok}}

InitWrite ==
    /\ audio = <<>>
    /\ sample_rate = OUTPUT_SAMPLE_RATE
    /\ result = [pc |-> "idle"]
    /\ clips_json \in InitialCatalogs
    /\ clips_backup = <<>>
    /\ files = FilesOf(clips_json)
    /\ last = [op |-> "none"]
    /\ nops = 0

\* open(path, 'w'): the file is truncated to length 0
OpenTruncate ==
    \E new \in CatalogsToWrite(clips_json, files) :
        /\ result.pc = "idle"
        /\ nops < MaxOps
        /\ Len(new) <= MaxCatalog
        /\ result' = [pc |-> "writing", old |-> clips_json, new |-> new]
        /\ clips_json' = <<>>
        /\ nops' = nops + 1
        /\ UNCHANGED <<audio, sample_rate, clips_backup, files, last>>

\* json.dump: the text of the next record reaches the file
WriteRecord ==
    /\ result.pc = "writing"
    /\ Len(clips_json) < Len(result.new)
    /\ clips_json' = Append(clips_json, result.new[Len(clips_json) + 1])
    /\ UNCHANGED <<audio, sample_rate, result, clips_backup, files, last, nops>>

\* the end of the with block: the closing bracket is written, the file closed
CloseFile ==
    /\ result.pc = "writing"
    /\ Len(clips_json) = Len(result.new)
    /\ result' = [pc |-> "idle"]
    /\ UNCHANGED <<audio, sample_rate, clips_json, clips_backup, files, last, nops>>

\* the writer is killed, or json.dump raises, while the file is open
CrashWriter ==
    /\ result.pc = "writing"
    /\ result' = [result EXCEPT !.pc = "crashed"]
    /\ UNCHANGED <<audio, sample_rate, clips_json, clips_backup, files, last, nops>>

\* another process reads clips.json (load_clips, GET /api/clips)
ReadCatalog ==
    /\ last' = [op |-> "read", clips |-> clips_json,
                complete |-> result.pc = "idle",
                old |-> IF result.pc = "idle" THEN clips_json ELSE result.old,
                new |-> IF result.pc = "idle" THEN clips_json ELSE result.new]
    /\ UNCHANGED <<audio, sample_rate, result, clips_json, clips_backup, files, nops>>

NextWrite ==
    \/ OpenTruncate
    \/ WriteRecord
    \/ CloseFile
    \/ CrashWriter
    \/ ReadCatalog

SpecWrite == InitWrite /\ [][NextWrite]_vars

\* C21: whatever a reader of clips.json gets, and whatever is in the file
\* after a crash of the writer, is a complete JSON list holding either the
\* whole old catalog or the whole new one.
C21_AtomicRewrite ==
    /\ last.op = "read" =>
          /\ last.complete
          /\ last.clips \in {last.old, last.new}
    /\ result.pc = "crashed" =>
          /\ Len(clips_json) = Len(result.new)
          /\ clips_json \in {result.old, result.new}

----------------------------------------------------------------------------
(* The segment selectors on the same buffers                               *)

NextSelect == Trim \/ CornellExtract \/ NzExtract

SpecSelect == InitExtract /\ [][NextSelect]_vars

\* C22: for a buffer longer than the window, the window trim_audio chooses
\* and every window extract_clips chooses starts at 0 or later and ends at
\* or before the end of the buffer, and the clip cut from it has the full
\* window length.
C22_WindowsInsideBuffer ==
    /\ (result.op = "trim_audio" /\ Len(audio) > 3 * sample_rate) =>
          /\ result.best_start >= 0
          /\ result.best_start + 3 * sample_rate <= Len(audio)
          /\ Len(result.audio) = 3 * sample_rate
    /\ (result.op = "extract_clips" /\ Len(audio) > result.window) =>
          \A i \in 1..Len(result.starts) :
              /\ result.starts[i] >= 0
              /\ result.starts[i] + result.window <= Len(audio)
              /\ Len(result.clips[i]) = result.window

\* a chosen window ends one sample before the end of the buffer
C22_Witness ==
    /\ result.op = "extract_clips"
    /\ Len(audio) > result.window
    /\ \E i \in 1..Len(result.starts) :
           /\ result.starts[i] > 0
           /\ result.starts[i] + result.window = Len(audio) - 1

----------------------------------------------------------------------------
(* One curation server and its /api/extract requests                       *)
(*                                                                         *)
(* result.server is the tool that runs, result.active the requests whose   *)
(* handler has started and not yet returned, result.done the answers of    *)
(* the successful ones ('clip_id', 'replaced').                            *)

ServerThreaded(active) == TRUE

\* socketserver.TCPServer: serve_forever runs the handler of a request to
\* its end in the serving thread before it accepts the next one
ServerFree(active) == active = {}

\* the requests a handler can get from the page
ExtractRequests(server, clips) ==
    IF server = "clip_editor" THEN EditorRequests(clips) ELSE SelectorRequests

\* extract_clip of the running tool
server_extract_clip(server, clips, disk, r) ==
    IF server = "clip_editor" THEN editor_extract_clip(clips, disk, r)
    ELSE selector_extract_clip(clips, disk, r)

InitServer ==
    /\ audio = <<>>
    /\ sample_rate = OUTPUT_SAMPLE_RATE
    /\ result \in {[server |-> s, active |-> {}, done |-> {}] :
                      s \in {"clip_editor", "clip_selector"}}
    /\ clips_json \in InitialCatalogs
    /\ clips_backup = <<>>
    /\ files = FilesOf(clips_json)
    /\ last = [op |-> "none"]
    /\ nops = 0

\* do_POST /api/extract: handle_extract starts for the next request
AcceptExtract ==
    \E r \in ExtractRequests(result.server, clips_json) :
        /\ ServerFree(result.active)
        /\ nops < MaxOps
        /\ result' = [result EXCEPT !.active =
                         @ \cup {[id |-> nops + 1, pc |-> "accepted", r |-> r,
                                  loaded |-> <<>>]}]
        /\ nops' = nops + 1
        /\ UNCHANGED <<audio, sample_rate, clips_json, clips_backup, files, last>>

\* existing_clips = json.load(f)
LoadCatalog ==
    \E a \in result.active :
        /\ a.pc = "accepted"
        /\ result' = [result EXCEPT !.active =
                         (@ \ {a}) \cup {[a EXCEPT !.pc = "loaded",
                                                   !.loaded = clips_json]}]
        /\ UNCHANGED <<audio, sample_rate, clips_json, clips_backup, files, last, nops>>

\* the files and the catalog are written from what was loaded, and the
\* handler answers
WriteCatalog ==
    \E a \in result.active :
        LET out == server_extract_clip(result.server, a.loaded, files, a.r)
        IN  /\ a.pc = "loaded"
            /\ Len(out.clips) <= MaxCatalog
            /\ clips_json' = IF out.ok THEN out.clips ELSE clips_json
            /\ files' = out.files
            /\ result' = [result EXCEPT
                             !.active = @ \ {a},
                             !.done = IF out.ok
                                      THEN @ \cup {[clip_id |-> out.clip_id,
                                                    replaced |->
                                                        Get(a.r, "replace_clip_id",
                                                            <<>>) # <<>>]}
                                      ELSE @]
            /\ last' = [op |-> "extract_clip", ok |-> out.ok, request |-> a.r,
                        clip_id |-> out.clip_id, pre_clips |-> a.loaded,
                        pre_files |-> files]
            /\ UNCHANGED <<audio, sample_rate, clips_backup, nops>>

NextServer == AcceptExtract \/ LoadCatalog \/ WriteCatalog

SpecServer == InitServer /\ [][NextServer]_vars

\* C23: a curation server never has two extraction requests under way, so
\* no request loads the catalog between the load and the write of another,
\* and every new clip the server has answered with is in the catalog.
C23_OneExtractionAtATime ==
    /\ Cardinality(result.active) <= 1
    /\ \A a \in result.active : a.pc = "loaded" => a.loaded = clips_json
    /\ \A d \in result.done :
           ~d.replaced => \E i \in 1..Len(clips_json) : clips_json[i].clip_id = d.clip_id

\* two extractions have been served one after the other
C23_Witness ==
    /\ result.active = {}
    /\ Cardinality({d \in result.done : ~d.replaced}) = 2
    /\ Len(clips_json) >= 2

----------------------------------------------------------------------------
(* migrate_species_codes                                                   *)

CODE_MIGRATIONS ==
    [AMGO |-> "AGOL", CEWA |-> "CEDW", SASP |-> "SAVS", WESJ |-> "CASJ",
     EWPE |-> "EAWP"]

NAME_FIXES ==
    [YRWA |-> "Yellow-rumped Warbler", CASJ |-> "California Scrub-Jay"]

\* old_code in CODE_MIGRATIONS, for a species code of one token
IsOldCode(code) == Len(code) = 1 /\ code[1] \in DOMAIN CODE_MIGRATIONS

\* s.replace(old_code, new_code, 1) when s.startswith(old_code)
MigrateHead(s, old_code) ==
    IF StartsWith(s, old_code)
    THEN <<CODE_MIGRATIONS[old_code[1]]>> \o DropFirst(s, 1) ELSE s

\* the first pass over one clip: code, clip_id and file_path
MigrateCode(clip) ==
    LET old_code == Get(clip, "species_code", <<>>)
    IN  IF IsOldCode(old_code)
        THEN Put(Put(Put(clip,
                 "species_code", <<CODE_MIGRATIONS[old_code[1]]>>),
                 "clip_id", MigrateHead(clip.clip_id, old_code)),
                 "file_path",
                 Path(clip.file_path.dir,
                      Replace(clip.file_path.name, old_code[1],
                              <<CODE_MIGRATIONS[old_code[1]]>>)))
        ELSE clip

\* the second pass: common_name of the species with a name fix
FixName(clip) ==
    LET current_code == Get(clip, "species_code", <<>>)
    IN  IF Len(current_code) = 1 /\ current_code[1] \in DOMAIN NAME_FIXES
        THEN Put(clip, "common_name", NAME_FIXES[current_code[1]])
        ELSE clip

\* the clips migrate_clips_json dumps
migrate_clips_json(clips) ==
    [i \in 1..Len(clips) |-> FixName(MigrateCode(clips[i]))]

\* migrate_files on data/clips and data/spectrograms: the files whose name
\* starts with an old code are renamed
migrate_files(disk) ==
    {IF f.dir \in {"clips", "spectrograms"} /\ f.name # <<>>
        /\ f.name[1] \in DOMAIN CODE_MIGRATIONS
     THEN Path(f.dir, MigrateHead(f.name, <<f.name[1]>>)) ELSE f : f \in disk}

\* a clip filed under the code that CEWA migrates to
CedwClip ==
    [clip_id |-> <<"CEDW", "_", "clip", "_", "1">>, species_code |-> <<"CEDW">>,
     file_path |-> WavOf(<<"CEDW", "_", "clip", "_", "1">>),
     spectrogram_path |-> PngOf(<<"CEDW", "_", "clip", "_", "1">>)] @@ ClipA2

MigrateCatalogs ==
    InitialCatalogs
    \cup {<<Canonical(ClipA1), CedwClip>>, <<Canonical(ClipA1), Canonical(CedwClip)>>}

InitMigrate ==
    /\ audio = <<>>
    /\ sample_rate = OUTPUT_SAMPLE_RATE
    /\ result = [op |-> "none"]
    /\ clips_json \in MigrateCatalogs
    /\ clips_backup = <<>>
    /\ files = FilesOf(clips_json)
    /\ last = [op |-> "none"]
    /\ nops = 0

\* python3 scripts/migrate_species_codes.py: clips.json, then the files
MigrateSpeciesCodes ==
    /\ nops < MaxOps
    /\ clips_backup' = clips_json
    /\ clips_json' = migrate_clips_json(clips_json)
    /\ files' = migrate_files(files)
    /\ last' = [op |-> "migrate_clips_json", ok |-> TRUE,
                pre_clips |-> clips_json, pre_files |-> files]
    /\ nops' = nops + 1
    /\ UNCHANGED audioVars

NextMigrate ==
    \/ MigrateSpeciesCodes
    \/ MergeCandidates
    \/ EditorExtract
    \/ SelectorExtract
    \/ AugmentSpecies

SpecMigrate == InitMigrate /\ [][NextMigrate]_vars

\* C24: merge_candidates, both extract_clip, augment_species and
\* migrate_clips_json write a catalog with at most one canonical,
\* non-rejected record per species_code whenever the catalog they loaded
\* had at most one.
C24_WritersKeepCanonicalUnique ==
    (last.op # "none" /\ ~TwoCanonicals(last.pre_clips)) => ~TwoCanonicals(clips_json)

----------------------------------------------------------------------------
(* extract_clip after its validation, write by write                       *)
(*                                                                         *)
(* result.pc is the next write of the request under way, result.out what   *)
(* the call writes when nothing fails, result.overwritten the files of the *)
(* catalog's clips whose content the request has replaced.                 *)

InitSteps ==
    /\ audio = <<>>
    /\ sample_rate = OUTPUT_SAMPLE_RATE
    /\ result \in {[server |-> s, pc |-> "idle"] :
                      s \in {"clip_editor", "clip_selector"}}
    /\ clips_json \in InitialCatalogs
    /\ clips_backup = <<>>
    /\ files = FilesOf(clips_json)
    /\ last = [op |-> "none"]
    /\ nops = 0

\* BeginExtract without the copies to the backup directory
BeginExtractNoBackup ==
    \E r \in ExtractRequests(result.server, clips_json) :
        LET out == server_extract_clip(result.server, clips_json, files, r)
        IN  /\ result.pc \in {"idle", "done", "failed"}
            /\ nops < MaxOps
            /\ out.ok
            /\ Len(out.clips) <= MaxCatalog
            /\ result' = [server |-> result.server, pc |-> "save_audio", r |-> r,
                          out |-> out, overwritten |-> {}]
            /\ nops' = nops + 1
            /\ UNCHANGED <<audio, sample_rate, clips_json, clips_backup, files, last>>

\* the request passes the validation, the catalog is loaded, the clip id
\* determined and, when replacing, the old files copied to the backup
\* directory
BeginExtract ==
    \E r \in ExtractRequests(result.server, clips_json) :
        LET out == server_extract_clip(result.server, clips_json, files, r)
        IN  /\ result.pc \in {"idle", "done", "failed"}
            /\ nops < MaxOps
            /\ out.ok
            /\ Len(out.clips) <= MaxCatalog
            /\ result' = [server |-> result.server, pc |-> "save_audio", r |-> r,
                          out |-> out, overwritten |-> {}]
            /\ files' = files \cup {f \in out.files : f.dir = "backups"}
            /\ nops' = nops + 1
            /\ UNCHANGED <<audio, sample_rate, clips_json, clips_backup, last>>

\* sf.write(str(output_path), segment, sr, subtype='PCM_16')
SaveAudio ==
    /\ result.pc = "save_audio"
    /\ files' = files \cup {WavOf(result.out.clip_id)}
    /\ result' = [result EXCEPT !.pc = "spectrogram",
                                !.overwritten = {WavOf(result.out.clip_id)} \cap files]
    /\ UNCHANGED <<audio, sample_rate, clips_json, clips_backup, last, nops>>

\* generate_spectrogram(segment, sr, str(spectrogram_path))
GenerateSpectrogram ==
    /\ result.pc = "spectrogram"
    /\ files' = files \cup {PngOf(result.out.clip_id)}
    /\ result' = [result EXCEPT !.pc = "dump"]
    /\ UNCHANGED <<audio, sample_rate, clips_json, clips_backup, last, nops>>

\* json.dump(existing_clips, f, indent=2), and the success answer
DumpCatalog ==
    /\ result.pc = "dump"
    /\ clips_json' = result.out.clips
    /\ result' = [result EXCEPT !.pc = "done"]
    /\ last' = [op |-> "extract_clip", ok |-> TRUE, pre_clips |-> clips_json]
    /\ UNCHANGED <<audio, sample_rate, clips_backup, files, nops>>

\* the next write raises (disk full, clips.json not writable, an error in
\* the plotting library): handle_extract answers success False
StepFails ==
    /\ result.pc \in {"save_audio", "spectrogram", "dump"}
    /\ result' = [result EXCEPT !.pc = "failed"]
    /\ last' = [op |-> "extract_clip", ok |-> FALSE, failed_at |-> result.pc]
    /\ UNCHANGED <<audio, sample_rate, clips_json, clips_backup, files, nops>>

NextSteps ==
    \/ BeginExtract
    \/ SaveAudio
    \/ GenerateSpectrogram
    \/ DumpCatalog
    \/ StepFails

SpecSteps == InitSteps /\ [][NextSteps]_vars

\* C25: when extract_clip has failed after its validation, every audio and
\* spectrogram file on disk belongs to a record of the catalog, and the
\* request has replaced the content of no file of a clip of the catalog.
C25_NoPartialOutput ==
    result.pc = "failed" =>
        /\ \A f \in files :
               f.dir \in {"clips", "spectrograms"} =>
                   \E i \in 1..Len(clips_json) :
                       \/ clips_json[i].file_path = f
                       \/ clips_json[i].spectrogram_path = f
        /\ result.overwritten = {}

----------------------------------------------------------------------------
(* Claims on the record clip_editor writes                                 *)

\* C26: after clip_editor.extract_clip has returned success with clip_id X,
\* in new mode and in replace mode, the written catalog has exactly one
\* record with clip_id X, and the file_path of that record is
\* data/clips/X.wav.
C26_ReturnedIdHasOneRecord ==
    (last.op = "editor_extract_clip" /\ last.ok) =>
        LET holders == {i \in 1..Len(clips_json) :
                           clips_json[i].clip_id = last.clip_id}
        IN  /\ Cardinality(holders) = 1
            /\ \A i \in holders : clips_json[i].file_path = WavOf(last.clip_id)

\* the fields save_changes may set
ReviewFields == {"canonical", "rejected", "quality_score", "vocalization_type"}

\* after differs from before in review fields only
SameOutsideReview(before, after) ==
    /\ DOMAIN after \ ReviewFields = DOMAIN before \ ReviewFields
    /\ \A key \in DOMAIN before \ ReviewFields : after[key] = before[key]

\* C27: a successful save_changes writes the loaded records in their order,
\* without those that are rejected; a record whose clip_id is not in the
\* change set is written as it was, a record that is in the change set
\* differs at most in canonical, rejected, quality_score and
\* vocalization_type; an entry for an unknown clip_id adds nothing.
C27_SaveFrame ==
    (last.op = "save_changes" /\ last.ok) =>
        \E f \in [1..Len(clips_json) -> 1..Len(last.pre_clips)] :
            /\ \A j, k \in 1..Len(clips_json) : j < k => f[j] < f[k]
            /\ \A k \in 1..Len(clips_json) :
                   /\ SameOutsideReview(last.pre_clips[f[k]], clips_json[k])
                   /\ last.pre_clips[f[k]].clip_id \notin DOMAIN last.modified =>
                          clips_json[k] = last.pre_clips[f[k]]
            /\ \A i \in 1..Len(last.pre_clips) :
                   (\A k \in 1..Len(clips_json) : f[k] # i) =>
                       \/ Get(last.pre_clips[i], "rejected", FALSE)
                       \/ /\ last.pre_clips[i].clip_id \in DOMAIN last.modified
                          /\ Get(last.modified[last.pre_clips[i].clip_id],
                                 "rejected", FALSE)

\* a save that changed the first record and wrote the second as it was
C27_Witness ==
    /\ last.op = "save_changes"
    /\ last.ok
    /\ Len(clips_json) = 2
    /\ Len(last.pre_clips) = 2
    /\ clips_json[1] # last.pre_clips[1]
    /\ clips_json[2] = last.pre_clips[2]

----------------------------------------------------------------------------
(* spectrogram_gen.process_clips                                           *)

\* clips_by_path[path]: the last record of clips_data with this file_path
ByPath(clips, path) ==
    clips[CHOOSE i \in 1..Len(clips) :
              /\ clips[i].file_path = path
              /\ \A j \in (i + 1)..Len(clips) : clips[j].file_path # path]

\* what is in clips.json and on disk when process_clips returns; failing
\* holds the WAV files whose spectrogram could not be generated
process_clips(clips, disk, update_json, failing) ==
    LET wav_files == {f \in disk : f.dir = "clips" /\ f.name # <<>>
                                   /\ f.name[Len(f.name)] = ".wav"}
        generated == wav_files \ failing
        spectrogram(wav) == Path("spectrograms", Stem(wav) \o <<".png">>)
        entry(path) ==
            IF path \in generated
            THEN Put(ByPath(clips, path), "spectrogram_path", spectrogram(path))
            ELSE ByPath(clips, path)
        updated_clips == [i \in 1..Len(clips) |-> entry(clips[i].file_path)]
    IN  IF wav_files = {} THEN [clips |-> clips, files |-> disk]
        ELSE [clips |-> IF update_json /\ clips # <<>> THEN updated_clips ELSE clips,
              files |-> disk \cup {spectrogram(wav) : wav \in generated}]

\* a second record for the audio file of ClipA1
ClipA1Again == [clip_id |-> <<"CEWA", "_", "2">>, vocalization_type |-> "call"] @@ ClipA1

SpectrogramCatalogs ==
    InitialCatalogs \cup {<<ClipA1, ClipA1Again>>, <<ClipA1, ClipA2, ClipA1Again>>}

\* the WAV files are there, the spectrograms of some clips are not
InitSpectrogram ==
    /\ audio = <<>>
    /\ sample_rate = OUTPUT_SAMPLE_RATE
    /\ result = [op |-> "none"]
    /\ clips_json \in SpectrogramCatalogs
    /\ clips_backup = <<>>
    /\ files \in {FilesOf(clips_json),
                  {f \in FilesOf(clips_json) : f.dir = "clips"}}
    /\ last = [op |-> "none"]
    /\ nops = 0

\* python3 scripts/spectrogram_gen.py [--no-update-json]
ProcessClips ==
    \E update_json \in BOOLEAN :
        \E failing \in SUBSET {f \in files : f.dir = "clips"} :
            LET out == process_clips(clips_json, files, update_json, failing)
            IN  /\ nops < MaxOps
                /\ clips_json' = out.clips
                /\ files' = out.files
                /\ last' = [op |-> "process_clips", update_json |-> update_json,
                            failing |-> failing,
                            pre_clips |-> clips_json, pre_files |-> files]
                /\ nops' = nops + 1
                /\ UNCHANGED <<audio, sample_rate, result, clips_backup>>

NextSpectrogram == ProcessClips

SpecSpectrogram == InitSpectrogram /\ [][NextSpectrogram]_vars

\* C28: process_clips with update_json writes as many records as it loaded,
\* in the same order, each equal to the loaded one in every field other
\* than spectrogram_path.
C28_OnlySpectrogramPath ==
    (last.op = "process_clips" /\ last.update_json) =>
        /\ Len(clips_json) = Len(last.pre_clips)
        /\ \A i \in 1..Len(clips_json) :
               /\ DOMAIN clips_json[i] \ {"spectrogram_path"}
                      = DOMAIN last.pre_clips[i] \ {"spectrogram_path"}
               /\ \A key \in DOMAIN last.pre_clips[i] \ {"spectrogram_path"} :
                      clips_json[i][key] = last.pre_clips[i][key]

----------------------------------------------------------------------------
(* Replace mode of clip_editor                                             *)

\* the fields extract_clip sets in the record it replaces
ReplacedFields ==
    {"duration_ms", "loudness_lufs", "vocalization_type", "file_path",
     "spectrogram_path"}

\* the request in progress is a replacement by clip_editor of a clip that
\* has a record in clips
ReplacesRecordOf(clips) ==
    /\ result.server = "clip_editor"
    /\ result.pc \in {"save_audio", "spectrogram", "dump", "done"}
    /\ result.r.replace_clip_id # <<>>
    /\ \E i \in 1..Len(clips) : clips[i].clip_id = result.r.replace_clip_id

\* C29: a replacement by clip_editor of a clip that has a record has the old
\* audio file and the old spectrogram in the backup directory before it
\* writes the audio file, and the catalog it has written has the length and
\* the order of the catalog it loaded, every record equal to the loaded one
\* except the first record with the replaced clip_id, which differs from the
\* loaded one in no field other than duration_ms, loudness_lufs,
\* vocalization_type, file_path and spectrogram_path.
C29_ReplaceKeepsRecord ==
    /\ (result.pc = "save_audio" /\ ReplacesRecordOf(clips_json)) =>
           \A f \in {WavOf(result.r.replace_clip_id),
                     PngOf(result.r.replace_clip_id)} \cap files :
               Path("backups", f.name) \in files
    /\ (result.pc = "done" /\ ReplacesRecordOf(last.pre_clips)) =>
           LET found == FirstWithId(last.pre_clips, result.r.replace_clip_id)
           IN  /\ Len(clips_json) = Len(last.pre_clips)
               /\ \A i \in 1..Len(clips_json) :
                      i # found => clips_json[i] = last.pre_clips[i]
               /\ DOMAIN clips_json[found] \ ReplacedFields
                      = DOMAIN last.pre_clips[found] \ ReplacedFields
               /\ \A key \in DOMAIN clips_json[found] \ ReplacedFields :
                      clips_json[found][key] = last.pre_clips[found][key]
               /\ result.out.clip_id = result.r.replace_clip_id

\* a replacement of a canonical clip with both files on disk has been
\* written, in a catalog of two records
C29_Witness ==
    /\ result.pc = "done"
    /\ ReplacesRecordOf(last.pre_clips)
    /\ Len(clips_json) >= 2
    /\ clips_json[FirstWithId(clips_json, result.r.replace_clip_id)].canonical
    /\ Path("backups", WavOf(result.r.replace_clip_id).name) \in files
    /\ Path("backups", PngOf(result.r.replace_clip_id).name) \in files

----------------------------------------------------------------------------
(* Reuse of sequential clip ids                                            *)

\* C30: the clip id a new-mode extract_clip assigns is not the id of a
\* record of clips.json.backup, the catalog as it was before the last
\* save_changes or merge: an id that a clip held before it was rejected and
\* dropped is not given to another clip.
C30_IdNeverReassigned ==
    (/\ last.op \in {"editor_extract_clip", "selector_extract_clip"}
     /\ last.ok
     /\ Get(last.request, "replace_clip_id", <<>>) = <<>>) =>
        \A i \in 1..Len(clips_backup) : clips_backup[i].clip_id # last.clip_id

============================================================================
